---------------------------- MODULE Spec2Model ----------------------------
(***************************************************************************)
(* A model of the schema validation subsystem of toolmodel                 *)
(* (src/validator.go): DefaultValidator.Validate, ValidateInput,           *)
(* ValidateOutput, the schema normaliser toJSONSchema, the dialect check   *)
(* checkDialect and the blocking reference loader blockExternalRefs.       *)
(*                                                                         *)
(* Go strings that the code compares or takes prefixes of (dialect         *)
(* markers, reference URIs) are sequences of tokens.  The tokens form a    *)
(* prefix code (no token is a prefix of another), so equality and          *)
(* strings.HasPrefix on the Go strings coincide with equality and          *)
(* sequence-prefix on the token sequences.                                 *)
(***************************************************************************)
EXTENDS Naturals, Sequences, FiniteSets, TLC

VARIABLES
    objs,      \* the heap of jsonschema.Schema objects: reference -> struct
    pc,        \* caller -> position inside its current call
    call,      \* caller -> the call in progress (operation and arguments)
    js,        \* caller -> the reference held in Validate's local jsSchema
    result,    \* caller -> what the last finished call returned
    stages,    \* caller -> the stages the current / last call has run
    crashed,   \* TRUE once a run-time panic has taken the program down
    fn,        \* the function of src/tool.go applied last ("none" before any)
    arg,       \* the arguments the functions of src/tool.go are applied to
    ret        \* what the function applied last returned

vars == <<objs, pc, call, js, result, stages, crashed, fn, arg, ret>>

----------------------------------------------------------------------------
(* Strings *)

\* strings.HasPrefix(s, prefix)
HasPrefix(s, prefix) ==
    /\ Len(prefix) <= Len(s)
    /\ SubSeq(s, 1, Len(prefix)) = prefix

\* The empty Go string "".
EmptyString == << >>

\* const SchemaDialect202012 = "https://json-schema.org/draft/2020-12/schema"
SchemaDialect202012 == <<"https://json-schema.org/draft/2020-12", "/", "schema">>

\* const SchemaDialectDraft07 = "http://json-schema.org/draft-07/schema#"
SchemaDialectDraft07 == <<"http://json-schema.org/draft-07", "/", "schema", "#">>

\* const SchemaDialectDraft07Alt = "http://json-schema.org/draft-07/schema"
SchemaDialectDraft07Alt == <<"http://json-schema.org/draft-07", "/", "schema">>

\* The literal "https://json-schema.org/draft/2020-12/" of checkDialect.
Prefix202012 == <<"https://json-schema.org/draft/2020-12", "/">>

\* The literal "http://json-schema.org/draft-07/" of checkDialect.
PrefixDraft07 == <<"http://json-schema.org/draft-07", "/">>

----------------------------------------------------------------------------
(* Errors.  An error value is the sequence of the fixed texts of its       *)
(* message, outermost first, and the value the message names:              *)
(* fmt.Errorf("%w: ...", E) puts E's text at the head,                     *)
(* fmt.Errorf("...: %w", e) puts e's texts at the tail.  The tests         *)
(* classify an error by strings.Contains(err.Error(), E.Error()).          *)

ErrUnsupportedSchema == "unsupported JSON Schema dialect"
ErrExternalRef == "external $ref resolution is disabled"
ErrInvalidSchema == "invalid JSON Schema"

\* A returned error: its message parts, and the value the message names.
Err(parts, named) == [kind |-> "error", msg |-> parts, arg |-> named]

\* The nil error.
Nil == [kind |-> "nil", msg |-> << >>, arg |-> << >>]

\* A run-time panic: the call returns no value and the program goes down.
Panic == [kind |-> "panic", msg |-> <<"nil pointer dereference">>, arg |-> << >>]

\* strings.Contains(err.Error(), sentinel.Error()); false of nil and of a panic
IsErr(r, sentinel) ==
    /\ r.kind = "error"
    /\ \E i \in 1..Len(r.msg) : r.msg[i] = sentinel

----------------------------------------------------------------------------
(* jsonschema.Schema, and the representations a schema argument can take *)

\* The zero value of jsonschema.Schema (the fields the model follows).
\* Defs holds the entries of "$defs" as the sequence name, type, name, type...
ZeroSchema ==
    [Schema |-> EmptyString, Type |-> EmptyString, Ref |-> EmptyString,
     Defs |-> << >>, AdditionalProperties |-> EmptyString]

\* A jsSchema that keeps what its memory held before.
VarJsSchemaReused(prev) == prev

\* `var jsSchema jsonschema.Schema`: a declaration yields the zero value,
\* whatever the memory it is given held before.
VarJsSchema(prev) == ZeroSchema

\* JSON text, as the sequence of its tokens.
LBrace == [t |-> "{", k |-> "", v |-> << >>]
RBrace == [t |-> "}", k |-> "", v |-> << >>]
Member(key, val) == [t |-> "member", k |-> key, v |-> val]
Junk == [t |-> "junk", k |-> "", v |-> << >>]

\* A map value encoding/json cannot encode (a func, a channel).
Unencodable == <<"<func>">>

\* The keys of a schema object the model follows, in byte order: json.Marshal
\* writes the keys of a map sorted.
KeyOrder == <<"$defs", "$ref", "$schema", "additionalProperties", "type">>

\* json.Marshal(m) of a map[string]any: an error if a value cannot be
\* encoded, else the object text with its keys sorted.
Marshal(m) ==
    IF \E k \in DOMAIN m : m[k] = Unencodable
    THEN [err |-> TRUE, data |-> << >>]
    ELSE LET keys == SelectSeq(KeyOrder, LAMBDA k : k \in DOMAIN m)
         IN  [err |-> FALSE,
              data |-> <<LBrace>>
                       \o [i \in 1..Len(keys) |-> Member(keys[i], m[keys[i]])]
                       \o <<RBrace>>]

\* Whether data is the text of one JSON object.
ValidObject(data) ==
    /\ Len(data) >= 2
    /\ data[1].t = "{"
    /\ data[Len(data)].t = "}"
    /\ \A i \in 2..(Len(data) - 1) : data[i].t = "member"

\* The struct after the members data[2..n] have been stored into it, in the
\* order of the text: a key the struct has a field for sets that field, a
\* later duplicate overwrites an earlier one.
RECURSIVE Store(_, _, _)
Store(s, data, n) ==
    IF n < 2 THEN s
    ELSE LET before == Store(s, data, n - 1)
             m == data[n]
         IN  CASE m.k = "$schema" -> [before EXCEPT !.Schema = m.v]
               [] m.k = "type" -> [before EXCEPT !.Type = m.v]
               [] m.k = "$ref" -> [before EXCEPT !.Ref = m.v]
               [] m.k = "$defs" -> [before EXCEPT !.Defs = m.v]
               [] m.k = "additionalProperties" ->
                    [before EXCEPT !.AdditionalProperties = m.v]
               [] OTHER -> before

\* json.Unmarshal(data, &target): an error and an untouched target if the
\* text is not valid, else the target with the members stored into it.
Unmarshal(data, target) ==
    IF ~ValidObject(data)
    THEN [err |-> TRUE, val |-> target]
    ELSE [err |-> FALSE, val |-> Store(target, data, Len(data) - 1)]

\* The callers of the validator (goroutines), by number.
Callers == {1, 2}

\* References to jsonschema.Schema objects: the nil pointer, the n-th object
\* the callers own, and the object a call of caller p allocates for itself.
NilRef == [own |-> "nil", n |-> 0]
CallerRef(i) == [own |-> "caller", n |-> i]

\* One working object for all the calls, whoever makes them.
SharedLocal(p) == [own |-> "local", n |-> 1]

Local(p) == [own |-> "local", n |-> p]

\* The values a schema argument (an `any`) can hold.
NilSchema == [kind |-> "nil"]
PtrSchema(r) == [kind |-> "*jsonschema.Schema", ref |-> r]
ValSchema(s) == [kind |-> "jsonschema.Schema", val |-> s]
RawSchema(b) == [kind |-> "json.RawMessage", bytes |-> b]
ByteSchema(b) == [kind |-> "[]byte", bytes |-> b]
MapSchema(m) == [kind |-> "map[string]any", m |-> m]
StringSchema == [kind |-> "string"]
IntSchema == [kind |-> "int"]

----------------------------------------------------------------------------
(* DefaultValidator *)

\* The call's own object is the one CopySchema was given: no copy is made.
ReturnSame(h, s, slot) ==
    [ref |-> s, heap |-> h]

\* `copySchema := *s; return &copySchema`: the call's own object receives a
\* shallow copy of the caller's object s, and the call works on the copy.
CopySchema(h, s, slot) ==
    [ref |-> slot, heap |-> [h EXCEPT ![slot] = h[s]]]

\* fmt's %T of a value of the given dynamic type: the name of the type, and
\* "<nil>" for the untyped nil, which has none.
TypeName(kind) == IF kind = "nil" THEN "<nil>" ELSE kind

\* A default case whose message leaves out what it was given.
UnsupportedTypeUnnamed(h, kind) ==
    [err |-> Err(<<ErrInvalidSchema, "unsupported schema type">>, << >>),
     ref |-> NilRef, heap |-> h]

\* The error of toJSONSchema's default case, naming the type of the value.
UnsupportedType(h, kind) ==
    [err |-> Err(<<ErrInvalidSchema,
                   "expected map[string]any or *jsonschema.Schema, got">>,
                 <<TypeName(kind)>>),
     ref |-> NilRef, heap |-> h]

\* A parse that drops the error of json.Unmarshal and goes on with whatever
\* the decoder left in jsSchema.
ParseIntoLenient(h, data, slot) ==
    LET u == Unmarshal(data, VarJsSchema(h[slot]))
    IN  [err |-> Nil, ref |-> slot, heap |-> [h EXCEPT ![slot] = u.val]]

\* The json.Unmarshal(data, &jsSchema) that ends three cases of toJSONSchema.
ParseInto(h, data, slot) ==
    LET u == Unmarshal(data, VarJsSchema(h[slot]))
    IN  IF u.err
        THEN [err |-> Err(<<ErrInvalidSchema, "failed to parse schema">>, << >>),
              ref |-> NilRef, heap |-> [h EXCEPT ![slot] = u.val]]
        ELSE [err |-> Nil, ref |-> slot, heap |-> [h EXCEPT ![slot] = u.val]]

\* toJSONSchema's case json.RawMessage.
FromRawMessage(h, bytes, slot) ==
    IF Len(bytes) = 0
    THEN [err |-> Err(<<ErrInvalidSchema, "empty schema">>, << >>),
          ref |-> NilRef, heap |-> h]
    ELSE ParseInto(h, bytes, slot)

\* toJSONSchema without a case for []byte: the value falls to the default.
FromBytesDefault(h, bytes, slot) == UnsupportedType(h, "[]byte")

\* toJSONSchema's case []byte.
FromBytes(h, bytes, slot) ==
    IF Len(bytes) = 0
    THEN [err |-> Err(<<ErrInvalidSchema, "empty schema">>, << >>),
          ref |-> NilRef, heap |-> h]
    ELSE ParseInto(h, bytes, slot)

\* A conversion that reads the keywords it knows out of the map by hand and
\* leaves the rest ("$defs") behind.
FromMapByHand(h, m, slot) ==
    LET get(k) == IF k \in DOMAIN m THEN m[k] ELSE EmptyString
    IN  IF \E k \in DOMAIN m : m[k] = Unencodable
        THEN [err |-> Err(<<ErrInvalidSchema, "failed to marshal schema">>, << >>),
              ref |-> NilRef, heap |-> h]
        ELSE [err |-> Nil, ref |-> slot,
              heap |-> [h EXCEPT ![slot] =
                          [Schema |-> get("$schema"), Type |-> get("type"),
                           Ref |-> get("$ref"), Defs |-> << >>,
                           AdditionalProperties |-> get("additionalProperties")]]]

\* A conversion that leaves out the members whose value is false.
FromMapDroppingFalse(h, m, slot) ==
    LET kept == [k \in {k \in DOMAIN m : m[k] # <<"false">>} |-> m[k]]
        d == Marshal(kept)
    IN  IF d.err
        THEN [err |-> Err(<<ErrInvalidSchema, "failed to marshal schema">>, << >>),
              ref |-> NilRef, heap |-> h]
        ELSE ParseInto(h, d.data, slot)

\* toJSONSchema's case map[string]any.
FromMap(h, m, slot) ==
    LET d == Marshal(m)
    IN  IF d.err
        THEN [err |-> Err(<<ErrInvalidSchema, "failed to marshal schema">>, << >>),
              ref |-> NilRef, heap |-> h]
        ELSE ParseInto(h, d.data, slot)

\* toJSONSchema(schema): the error, or the reference to the schema object
\* the call works on, held in the caller's own object `slot`; h is the heap.
toJSONSchema(h, schema, slot) ==
    CASE schema.kind = "*jsonschema.Schema" ->
           IF schema.ref = NilRef
           THEN [err |-> Err(<<ErrInvalidSchema, "nil schema">>, << >>),
                 ref |-> NilRef, heap |-> h]
           ELSE LET c == CopySchema(h, schema.ref, slot)
                IN  [err |-> Nil, ref |-> c.ref, heap |-> c.heap]
      [] schema.kind = "jsonschema.Schema" ->
           [err |-> Nil, ref |-> slot, heap |-> [h EXCEPT ![slot] = schema.val]]
      [] schema.kind = "json.RawMessage" -> FromRawMessage(h, schema.bytes, slot)
      [] schema.kind = "[]byte" -> FromBytes(h, schema.bytes, slot)
      [] schema.kind = "map[string]any" -> FromMap(h, schema.m, slot)
      [] OTHER -> UnsupportedType(h, schema.kind)

\* checkDialect that accepts the draft-07 markers without clearing them.
checkDialectKeepMarker(h, ref) ==
    LET dialect == h[ref].Schema
    IN  IF h[ref].Schema = EmptyString THEN [err |-> Nil, heap |-> h]
        ELSE IF dialect = SchemaDialect202012 THEN [err |-> Nil, heap |-> h]
        ELSE IF dialect = SchemaDialectDraft07 \/ dialect = SchemaDialectDraft07Alt
             THEN [err |-> Nil, heap |-> h]
        ELSE IF HasPrefix(dialect, Prefix202012) THEN [err |-> Nil, heap |-> h]
        ELSE IF HasPrefix(dialect, PrefixDraft07) THEN [err |-> Nil, heap |-> h]
        ELSE [err |-> Err(<<ErrUnsupportedSchema,
                            "(only 2020-12 and draft-07 are supported)">>, dialect),
              heap |-> h]

\* checkDialect with the two exact-match cases only: no prefix is tried.
checkDialectExact(h, ref) ==
    LET dialect == h[ref].Schema
        cleared == [h EXCEPT ![ref].Schema = EmptyString]
    IN  IF h[ref].Schema = EmptyString THEN [err |-> Nil, heap |-> h]
        ELSE IF dialect = SchemaDialect202012 THEN [err |-> Nil, heap |-> h]
        ELSE IF dialect = SchemaDialectDraft07 \/ dialect = SchemaDialectDraft07Alt
             THEN [err |-> Nil, heap |-> cleared]
        ELSE [err |-> Err(<<ErrUnsupportedSchema,
                            "(only 2020-12 and draft-07 are supported)">>, dialect),
              heap |-> h]

\* checkDialect whose default case clears the marker and accepts.
checkDialectNoReject(h, ref) ==
    LET dialect == h[ref].Schema
        cleared == [h EXCEPT ![ref].Schema = EmptyString]
    IN  IF h[ref].Schema = EmptyString THEN [err |-> Nil, heap |-> h]
        ELSE IF dialect = SchemaDialect202012 THEN [err |-> Nil, heap |-> h]
        ELSE IF HasPrefix(dialect, Prefix202012) THEN [err |-> Nil, heap |-> h]
        ELSE [err |-> Nil, heap |-> cleared]

\* checkDialect(schema): the error, and the heap after the write the check
\* makes through the pointer it is given.
checkDialect(h, ref) ==
    LET dialect == h[ref].Schema
        cleared == [h EXCEPT ![ref].Schema = EmptyString]
    IN  IF h[ref].Schema = EmptyString THEN [err |-> Nil, heap |-> h]
        ELSE IF dialect = SchemaDialect202012 THEN [err |-> Nil, heap |-> h]
        ELSE IF dialect = SchemaDialectDraft07 \/ dialect = SchemaDialectDraft07Alt
             THEN [err |-> Nil, heap |-> cleared]
        ELSE IF HasPrefix(dialect, Prefix202012) THEN [err |-> Nil, heap |-> h]
        ELSE IF HasPrefix(dialect, PrefixDraft07) THEN [err |-> Nil, heap |-> cleared]
        ELSE [err |-> Err(<<ErrUnsupportedSchema,
                            "(only 2020-12 and draft-07 are supported)">>, dialect),
              heap |-> h]

\* A loader that finds a schema for every URI.
allowExternalRefs(uri) ==
    [schema |-> CallerRef(1), err |-> Nil]

\* blockExternalRefs(uri): no schema, and an error naming the URI.
blockExternalRefs(uri) ==
    [schema |-> NilRef, err |-> Err(<<ErrExternalRef>>, uri)]

\* Whether a $ref points into the document that holds it.
IsLocalRef(ref) == HasPrefix(ref, <<"#">>)

\* "#/$defs/name": the reference to the entry `name` of the document's $defs.
DefsRef(name) == <<"#", "/$defs/", name>>

\* The positions of the entries of s.Defs that s.Ref points to.
Targets(s) ==
    {i \in 1..Len(s.Defs) : i % 2 = 1 /\ i < Len(s.Defs) /\ s.Ref = DefsRef(s.Defs[i])}

\* Whether the in-document reference of s has a target in s's own $defs.
HasTarget(s) == Targets(s) # {}

\* The type the target of s's in-document reference asks for.
TargetType(s) == <<s.Defs[(CHOOSE i \in Targets(s) : \A j \in Targets(s) : j <= i) + 1]>>

\* jsSchema.Resolve(&jsonschema.ResolveOptions{Loader: v.blockExternalRefs}):
\* a reference into the document is resolved in the document, a reference
\* that leaves it is fetched through the loader, and the loader's error fails
\* the resolution.  loads: the URIs the loader was invoked with.
Resolve(s) ==
    IF s.Ref = EmptyString
    THEN [err |-> Nil, loads |-> << >>]
    ELSE IF IsLocalRef(s.Ref)
    THEN IF HasTarget(s)
         THEN [err |-> Nil, loads |-> << >>]
         ELSE [err |-> Err(<<"resolving: no such schema in the document">>, s.Ref),
               loads |-> << >>]
    ELSE LET l == blockExternalRefs(s.Ref)
         IN  IF l.err.kind = "error"
             THEN [err |-> Err(<<"loading">> \o l.err.msg, l.err.arg),
                   loads |-> <<s.Ref>>]
             ELSE [err |-> Nil, loads |-> <<s.Ref>>]

\* Instances: a string, and objects with the given keys.
InstString == [kind |-> "string", keys |-> {}]
InstObject(keys) == [kind |-> "object", keys |-> keys]

\* jsonschema's (*Resolved).Validate(instance): the "type" keyword of the
\* schema, then of the schema its in-document "$ref" resolved to, then
\* "additionalProperties": false, which no key of an object passes (the
\* schemas here have no "properties").
ValidateInstance(s, instance) ==
    IF ~(s.Type = EmptyString \/ s.Type = <<instance.kind>>)
    THEN Err(<<"validating: type: does not have type">>, s.Type)
    ELSE IF IsLocalRef(s.Ref) /\ HasTarget(s) /\ TargetType(s) # <<instance.kind>>
    THEN Err(<<"validating: $ref: type: does not have type">>, TargetType(s))
    ELSE IF /\ s.AdditionalProperties = <<"false">>
            /\ instance.kind = "object"
            /\ instance.keys # {}
    THEN Err(<<"validating: additionalProperties: unexpected properties">>, << >>)
    ELSE Nil

\* One entry for each invocation of the loader.
LoaderRuns(loads) == [i \in 1..Len(loads) |-> "blockExternalRefs"]

\* fmt.Errorf("schema resolution failed: %w", err)
WrapResolution(e) == Err(<<"schema resolution failed">> \o e.msg, e.arg)

\* fmt.Errorf("validation failed: %w", err)
WrapValidation(e) == Err(<<"validation failed">> \o e.msg, e.arg)

\* DefaultValidator.Validate(schema, instance), run without interruption by
\* a call whose own object is `slot`: what it returns, the heap it leaves,
\* the stages it ran and the URIs its loader was invoked with.
Validate(h, schema, instance, slot) ==
    LET n == toJSONSchema(h, schema, slot)
    IN  IF n.err # Nil
        THEN [res |-> n.err, heap |-> n.heap, ran |-> <<"toJSONSchema">>,
              loads |-> << >>]
        ELSE
    LET d == checkDialect(n.heap, n.ref)
    IN  IF d.err # Nil
        THEN [res |-> d.err, heap |-> d.heap,
              ran |-> <<"toJSONSchema", "checkDialect">>, loads |-> << >>]
        ELSE
    LET r == Resolve(d.heap[n.ref])
    IN  IF r.err # Nil
        THEN [res |-> WrapResolution(r.err), heap |-> d.heap,
              ran |-> <<"toJSONSchema", "checkDialect", "Resolve">>
                      \o LoaderRuns(r.loads),
              loads |-> r.loads]
        ELSE
    LET e == ValidateInstance(d.heap[n.ref], instance)
    IN  [res |-> IF e # Nil THEN WrapValidation(e) ELSE Nil,
         heap |-> d.heap,
         ran |-> <<"toJSONSchema", "checkDialect", "Resolve">>
                 \o LoaderRuns(r.loads) \o <<"Validate">>,
         loads |-> r.loads]

----------------------------------------------------------------------------
(* Tools: *Tool, with the two schema fields of the embedded mcp.Tool *)

NilTool == [isNil |-> TRUE, InputSchema |-> NilSchema, OutputSchema |-> NilSchema]
MkTool(in, out) == [isNil |-> FALSE, InputSchema |-> in, OutputSchema |-> out]

----------------------------------------------------------------------------
(* The inputs the callers draw from *)

\* "https://example.com/x.json"
ExternalURI == <<"https://example.com/", "x.json">>

\* $schema markers: none, the 2020-12 family, the draft-07 family, and
\* markers outside both families.
CuratedMarkers ==
    << EmptyString,
       SchemaDialect202012,
       Prefix202012 \o <<"x">>,
       SchemaDialectDraft07,
       SchemaDialectDraft07Alt,
       PrefixDraft07 \o <<"x">>,
       <<"http://json-schema.org/draft-04", "/", "schema", "#">>,
       <<"http://json-schema.org/draft-06", "/", "schema", "#">>,
       <<"https://json-schema.org/draft-07", "/", "schema", "#">>,
       <<"http://json-schema.org/draft/2020-12", "/", "schema">>,
       <<"https://example.com/", "my-schema">> >>

\* The rest of a schema: {"type":"string"}, {"type":"object"},
\* {"$ref":"https://example.com/x.json"} and
\* {"$defs":{"name":{"type":"string"}},"$ref":"#/$defs/name"}.
Bodies ==
    << [Type |-> <<"string">>, Ref |-> EmptyString, Defs |-> << >>],
       [Type |-> <<"object">>, Ref |-> EmptyString, Defs |-> << >>],
       [Type |-> EmptyString, Ref |-> ExternalURI, Defs |-> << >>],
       [Type |-> EmptyString, Ref |-> DefsRef("name"), Defs |-> <<"name", "string">>] >>

NumOwned == Len(CuratedMarkers) * Len(Bodies)

\* The n-th schema object the callers own: every marker with every body.
OwnedSchema(n) ==
    LET m == CuratedMarkers[((n - 1) % Len(CuratedMarkers)) + 1]
        b == Bodies[((n - 1) \div Len(CuratedMarkers)) + 1]
    IN  [Schema |-> m, Type |-> b.Type, Ref |-> b.Ref, Defs |-> b.Defs,
         AdditionalProperties |-> EmptyString]

\* The same logical schema as the struct s, as a map[string]any: one key for
\* each keyword the schema has.
MapOf(s) ==
    LET keys == {k \in {"$schema", "type", "$ref", "$defs", "additionalProperties"} :
                    \/ k = "$schema" /\ s.Schema # EmptyString
                    \/ k = "type" /\ s.Type # EmptyString
                    \/ k = "$ref" /\ s.Ref # EmptyString
                    \/ k = "$defs" /\ s.Defs # << >>
                    \/ k = "additionalProperties"
                          /\ s.AdditionalProperties # EmptyString}
    IN  [k \in keys |-> CASE k = "$schema" -> s.Schema
                          [] k = "type" -> s.Type
                          [] k = "$ref" -> s.Ref
                          [] k = "$defs" -> s.Defs
                          [] k = "additionalProperties" -> s.AdditionalProperties]

\* The same logical schema as JSON text, its members in the order given.
TextOf(s, order) ==
    LET m == MapOf(s)
        keys == SelectSeq(order, LAMBDA k : k \in DOMAIN m)
    IN  <<LBrace>> \o [i \in 1..Len(keys) |-> Member(keys[i], m[keys[i]])]
                   \o <<RBrace>>

\* The orders in which the callers write the members of a schema text.
TextOrders ==
    { <<"$schema", "type", "additionalProperties", "$defs", "$ref">>,
      <<"$ref", "additionalProperties", "type", "$schema", "$defs">> }

\* The representations of the n-th logical schema.
ReprsOf(n) ==
    {PtrSchema(CallerRef(n)), ValSchema(OwnedSchema(n)), MapSchema(MapOf(OwnedSchema(n)))}
    \cup {RawSchema(TextOf(OwnedSchema(n), o)) : o \in TextOrders}
    \cup {ByteSchema(TextOf(OwnedSchema(n), o)) : o \in TextOrders}

\* Byte sequences that hold no schema: nothing at all, an object that is
\* never closed (with and without a member), and text that is not JSON.
BadTexts ==
    { << >>, <<LBrace>>, <<LBrace, Member("type", <<"string">>)>>, <<Junk>> }

\* Schema arguments that describe no schema.
OddSchemas ==
    { NilSchema, StringSchema, IntSchema, PtrSchema(NilRef),
      MapSchema([k \in {"type"} |-> Unencodable]) }
    \cup {RawSchema(b) : b \in BadTexts} \cup {ByteSchema(b) : b \in BadTexts}

SchemaArgs == OddSchemas \cup UNION {ReprsOf(n) : n \in 1..NumOwned}

Instances == {InstString, InstObject({}), InstObject({"extra"})}

\* The schemas the fields of a tool hold.
ToolSchemas ==
    { NilSchema,
      MapSchema(MapOf(OwnedSchema(1))),
      PtrSchema(CallerRef(Len(CuratedMarkers) + 4)),
      RawSchema(TextOf(OwnedSchema(7), <<"$schema", "type", "$defs", "$ref">>)) }

Tools == {NilTool} \cup {MkTool(i, o) : i \in ToolSchemas, o \in ToolSchemas}

----------------------------------------------------------------------------
(* The calls, step by step.  A call of caller p works on p's own object    *)
(* Local(p); between two steps of one call the other callers may run.      *)

\* No value yet: the call is in progress.
Pending == [kind |-> "pending", msg |-> << >>, arg |-> << >>]

NoCall == [op |-> "none", tool |-> NilTool, schema |-> NilSchema,
           instance |-> InstString]

\* ValidateInput that validates against the tool's output schema.
ValidateInputUsingOutput(tool) ==
    IF tool.isNil
    THEN [res |-> Panic, schema |-> NilSchema]
    ELSE IF tool.InputSchema = NilSchema
         THEN [res |-> Err(<<ErrInvalidSchema, "InputSchema is nil">>, << >>),
               schema |-> NilSchema]
         ELSE [res |-> Pending, schema |-> tool.OutputSchema]

\* ValidateInput with the absent-schema rule of ValidateOutput: a tool
\* without an input schema passes.
ValidateInputOptional(tool) ==
    IF tool.isNil
    THEN [res |-> Panic, schema |-> NilSchema]
    ELSE IF tool.InputSchema = NilSchema
         THEN [res |-> Nil, schema |-> NilSchema]
         ELSE [res |-> Pending, schema |-> tool.InputSchema]

\* DefaultValidator.ValidateInput(tool, args) up to its call of Validate:
\* what it returns at once, or the schema it hands to Validate.
ValidateInput(tool) ==
    IF tool.isNil
    THEN [res |-> Panic, schema |-> NilSchema]
    ELSE IF tool.InputSchema = NilSchema
         THEN [res |-> Err(<<ErrInvalidSchema, "InputSchema is nil">>, << >>),
               schema |-> NilSchema]
         ELSE [res |-> Pending, schema |-> tool.InputSchema]

\* ValidateOutput with the absent-schema rule of ValidateInput: a tool
\* without an output schema is refused.
ValidateOutputRequired(tool) ==
    IF tool.isNil
    THEN [res |-> Panic, schema |-> NilSchema]
    ELSE IF tool.OutputSchema = NilSchema
         THEN [res |-> Err(<<ErrInvalidSchema, "OutputSchema is nil">>, << >>),
               schema |-> NilSchema]
         ELSE [res |-> Pending, schema |-> tool.OutputSchema]

\* ValidateOutput that takes an empty byte sequence and a nil pointer for
\* an absent schema too.
ValidateOutputAbsentIfEmpty(tool) ==
    IF tool.isNil
    THEN [res |-> Panic, schema |-> NilSchema]
    ELSE IF \/ tool.OutputSchema = NilSchema
            \/ tool.OutputSchema = PtrSchema(NilRef)
            \/ tool.OutputSchema = RawSchema(<< >>)
            \/ tool.OutputSchema = ByteSchema(<< >>)
         THEN [res |-> Nil, schema |-> NilSchema]
         ELSE [res |-> Pending, schema |-> tool.OutputSchema]

\* DefaultValidator.ValidateOutput(tool, result) up to its call of Validate.
ValidateOutput(tool) ==
    IF tool.isNil
    THEN [res |-> Panic, schema |-> NilSchema]
    ELSE IF tool.OutputSchema = NilSchema
         THEN [res |-> Nil, schema |-> NilSchema]
         ELSE [res |-> Pending, schema |-> tool.OutputSchema]

\* Caller p starts the call `c`, whose wrapper returned `e`.
Enter(p, c, e) ==
    /\ call' = [call EXCEPT ![p] = [c EXCEPT !.schema = e.schema]]
    /\ result' = [result EXCEPT ![p] = e.res]
    /\ stages' = [stages EXCEPT ![p] = << >>]
    /\ js' = [js EXCEPT ![p] = NilRef]
    /\ pc' = [pc EXCEPT ![p] = IF e.res = Pending THEN "toJSONSchema" ELSE "done"]
    /\ crashed' = (e.res = Panic)
    /\ UNCHANGED <<objs, fn, arg, ret>>

CallValidate(p, S, I) ==
    /\ ~crashed
    /\ pc[p] \in {"idle", "done"}
    /\ \E schema \in S, instance \in I :
          Enter(p, [op |-> "Validate", tool |-> NilTool, schema |-> schema,
                    instance |-> instance],
                [res |-> Pending, schema |-> schema])

CallValidateInput(p, T, I) ==
    /\ ~crashed
    /\ pc[p] \in {"idle", "done"}
    /\ \E tool \in T, args \in I :
          Enter(p, [op |-> "ValidateInput", tool |-> tool, schema |-> NilSchema,
                    instance |-> args],
                ValidateInput(tool))

CallValidateOutput(p, T, I) ==
    /\ ~crashed
    /\ pc[p] \in {"idle", "done"}
    /\ \E tool \in T, res \in I :
          Enter(p, [op |-> "ValidateOutput", tool |-> tool, schema |-> NilSchema,
                    instance |-> res],
                ValidateOutput(tool))

\* A Validate that reports a refused dialect but goes on to resolve the
\* references all the same.
ProceedPastDialect(p, err, ran, next) ==
    /\ stages' = [stages EXCEPT ![p] = @ \o ran]
    /\ result' = [result EXCEPT ![p] = IF err # Nil THEN err ELSE @]
    /\ pc' = [pc EXCEPT ![p] = IF err # Nil /\ ran # <<"checkDialect">>
                                THEN "done" ELSE next]
    /\ UNCHANGED <<call, crashed, fn, arg, ret>>

\* Validate returns err at the end of the stage `ran` if err is an error,
\* and goes on to the stage `next` otherwise.
Proceed(p, err, ran, next) ==
    /\ stages' = [stages EXCEPT ![p] = @ \o ran]
    /\ result' = [result EXCEPT ![p] = IF err # Nil THEN err ELSE @]
    /\ pc' = [pc EXCEPT ![p] = IF err # Nil THEN "done" ELSE next]
    /\ UNCHANGED <<call, crashed, fn, arg, ret>>

\* jsSchema, err := v.toJSONSchema(schema)
StepToJSONSchema(p) ==
    /\ ~crashed
    /\ pc[p] = "toJSONSchema"
    /\ LET n == toJSONSchema(objs, call[p].schema, Local(p))
       IN  /\ objs' = n.heap
           /\ js' = [js EXCEPT ![p] = n.ref]
           /\ Proceed(p, n.err, <<"toJSONSchema">>, "checkDialect")

\* err := v.checkDialect(jsSchema)
StepCheckDialect(p) ==
    /\ ~crashed
    /\ pc[p] = "checkDialect"
    /\ LET d == checkDialect(objs, js[p])
       IN  /\ objs' = d.heap
           /\ Proceed(p, d.err, <<"checkDialect">>, "Resolve")
    /\ UNCHANGED js

\* resolved, err := jsSchema.Resolve(...)
StepResolve(p) ==
    /\ ~crashed
    /\ pc[p] = "Resolve"
    /\ LET r == Resolve(objs[js[p]])
       IN  Proceed(p, IF r.err # Nil THEN WrapResolution(r.err) ELSE Nil,
                   <<"Resolve">> \o LoaderRuns(r.loads), "Validate")
    /\ UNCHANGED <<objs, js>>

\* err := resolved.Validate(instance); return nil
StepValidate(p) ==
    /\ ~crashed
    /\ pc[p] = "Validate"
    /\ LET e == ValidateInstance(objs[js[p]], call[p].instance)
       IN  /\ stages' = [stages EXCEPT ![p] = @ \o <<"Validate">>]
           /\ result' = [result EXCEPT ![p] =
                            IF e # Nil THEN WrapValidation(e) ELSE Nil]
           /\ pc' = [pc EXCEPT ![p] = "done"]
    /\ UNCHANGED <<objs, js, call, crashed, fn, arg, ret>>

Refs == {CallerRef(n) : n \in 1..NumOwned} \cup {Local(p) : p \in Callers}

\* No function of src/tool.go has been applied.
NoToolFn == fn = "none" /\ arg = << >> /\ ret = << >>

\* No call of the validator has been made.
NoValidation ==
    /\ objs = [r \in Refs |-> IF r.own = "caller" THEN OwnedSchema(r.n)
                                                  ELSE ZeroSchema]
    /\ pc = [p \in Callers |-> "idle"]
    /\ call = [p \in Callers |-> NoCall]
    /\ js = [p \in Callers |-> NilRef]
    /\ result = [p \in Callers |-> Pending]
    /\ stages = [p \in Callers |-> << >>]
    /\ crashed = FALSE

Init == NoValidation /\ NoToolFn

\* One caller: its calls follow one another.
Next ==
    \/ CallValidate(1, SchemaArgs, Instances)
    \/ CallValidateInput(1, Tools, Instances)
    \/ CallValidateOutput(1, Tools, Instances)
    \/ StepToJSONSchema(1)
    \/ StepCheckDialect(1)
    \/ StepResolve(1)
    \/ StepValidate(1)

Spec == Init /\ [][Next]_vars

----------------------------------------------------------------------------
(* Two callers at once, on schema objects they share *)

\* The shared objects: {"type":"string"} with no marker, with the 2020-12
\* marker, with the draft-07 marker, with a marker of the draft-07 prefix
\* and with the draft-04 marker.
SharedSchemas == {PtrSchema(CallerRef(n)) : n \in {1, 2, 4, 6, 7}}

ConcInstances == {InstString, InstObject({})}

ConcTools == {MkTool(NilSchema, NilSchema),
              MkTool(PtrSchema(CallerRef(4)), PtrSchema(CallerRef(7)))}

NextConc ==
    \E p \in Callers :
        \/ CallValidate(p, SharedSchemas, ConcInstances)
        \/ CallValidateInput(p, ConcTools, ConcInstances)
        \/ CallValidateOutput(p, ConcTools, ConcInstances)
        \/ StepToJSONSchema(p)
        \/ StepCheckDialect(p)
        \/ StepResolve(p)
        \/ StepValidate(p)

SpecConc == Init /\ [][NextConc]_vars

----------------------------------------------------------------------------
(* Tools whose schema fields hold a value that is empty *)

\* Non-nil interface values that hold no schema: a nil *jsonschema.Schema,
\* a json.RawMessage and a []byte of length 0.
EmptySchemas == {PtrSchema(NilRef), RawSchema(<< >>), ByteSchema(<< >>)}

EmptySchemaTools ==
    {MkTool(i, o) :
        i \in EmptySchemas \cup {NilSchema, PtrSchema(CallerRef(Len(CuratedMarkers) + 4))},
        o \in EmptySchemas \cup {NilSchema, PtrSchema(CallerRef(Len(CuratedMarkers) + 4))}}

NextEmptySchema ==
    \/ CallValidateInput(1, EmptySchemaTools, Instances)
    \/ CallValidateOutput(1, EmptySchemaTools, Instances)
    \/ StepToJSONSchema(1)
    \/ StepCheckDialect(1)
    \/ StepResolve(1)
    \/ StepValidate(1)

SpecEmptySchema == Init /\ [][NextEmptySchema]_vars

----------------------------------------------------------------------------
(* The "no parameters" schemas of MCP *)

\* {"type":"object","additionalProperties":false} under the marker m.
RecommendedSchema(m) ==
    [ZeroSchema EXCEPT !.Schema = m, !.Type = <<"object">>,
                       !.AdditionalProperties = <<"false">>]

\* {"type":"object"} under the marker m.
AllowedSchema(m) == [ZeroSchema EXCEPT !.Schema = m, !.Type = <<"object">>]

\* The representations of the schema s that are handed over by value.
ValueReprs(s) ==
    {ValSchema(s), MapSchema(MapOf(s))}
    \cup {RawSchema(TextOf(s, o)) : o \in TextOrders}
    \cup {ByteSchema(TextOf(s, o)) : o \in TextOrders}

\* The markers of the "no parameters" schemas: none, 2020-12 and draft-07.
NoParamMarkers == {EmptyString, SchemaDialect202012, SchemaDialectDraft07}

NoParamSchemas ==
    UNION {ValueReprs(RecommendedSchema(m)) \cup ValueReprs(AllowedSchema(m)) :
              m \in NoParamMarkers}

NoParamInstances ==
    {InstString, InstObject({}), InstObject({"extra"}), InstObject({"any", "more"})}

NextNoParams ==
    \/ CallValidate(1, NoParamSchemas, NoParamInstances)
    \/ StepToJSONSchema(1)
    \/ StepCheckDialect(1)
    \/ StepResolve(1)
    \/ StepValidate(1)

SpecNoParams == Init /\ [][NextNoParams]_vars

----------------------------------------------------------------------------
(* The dialect check on its own, over every marker of a bounded length *)

MaxMarkerLen == 4

MarkerTokens ==
    { "https://json-schema.org/draft/2020-12", "http://json-schema.org/draft/2020-12",
      "http://json-schema.org/draft-07", "https://json-schema.org/draft-07",
      "http://json-schema.org/draft-04", "http://json-schema.org/draft-06",
      "https://example.com/my-schema", "/", "schema", "#" }

Markers == UNION {[1..n -> MarkerTokens] : n \in 0..MaxMarkerLen}

\* Validate(jsonschema.Schema{Schema: m, Type: "string"}, "hello") has
\* normalised its schema and is about to check the dialect.
InitDialect ==
    \E m \in Markers :
        LET s == [ZeroSchema EXCEPT !.Schema = m, !.Type = <<"string">>]
        IN  /\ objs = [r \in Refs |-> IF r.own = "caller" THEN OwnedSchema(r.n)
                                      ELSE IF r = Local(1) THEN s ELSE ZeroSchema]
            /\ pc = [p \in Callers |-> IF p = 1 THEN "checkDialect" ELSE "idle"]
            /\ call = [p \in Callers |->
                          IF p = 1 THEN [op |-> "Validate", tool |-> NilTool,
                                         schema |-> ValSchema(s),
                                         instance |-> InstString]
                          ELSE NoCall]
            /\ js = [p \in Callers |-> IF p = 1 THEN Local(1) ELSE NilRef]
            /\ result = [p \in Callers |-> Pending]
            /\ stages = [p \in Callers |-> IF p = 1 THEN <<"toJSONSchema">> ELSE << >>]
            /\ crashed = FALSE
            /\ NoToolFn

NextDialect == StepCheckDialect(1)

SpecDialect == InitDialect /\ [][NextDialect]_vars

----------------------------------------------------------------------------
(* src/tool.go.  Its functions are pure: a specification draws their        *)
(* arguments in its initial state and its actions apply them.  The strings  *)
(* these functions take apart are sequences of characters.                  *)

\* The variables of the validator, which the functions of tool.go leave alone.
valVars == <<objs, pc, call, js, result, stages, crashed>>

ErrInvalidToolID == "invalid tool ID format"
ErrInvalidTool == "invalid tool"

\* A Tool value with every field at its zero value.
ZeroTool ==
    [isNil |-> FALSE, Name |-> EmptyString, Description |-> EmptyString,
     Namespace |-> EmptyString, Version |-> EmptyString, Tags |-> << >>,
     InputSchema |-> NilSchema, OutputSchema |-> NilSchema]

\* strings.Count(s, c) for a one-character c.
Count(s, c) == Cardinality({i \in 1..Len(s) : s[i] = c})

\* strings.SplitN(s, c, 2) for a one-character c: s itself if c is not in
\* it, else what is before and what is after the first c.
SplitN2(s, c) ==
    IF Count(s, c) = 0 THEN <<s>>
    ELSE LET i == CHOOSE i \in 1..Len(s) :
                      s[i] = c /\ \A j \in 1..(i - 1) : s[j] # c
         IN  <<SubSeq(s, 1, i - 1), SubSeq(s, i + 1, Len(s))>>

\* An identifier that puts the separator in even without a namespace.
ToolIDAlwaysColon(t) == t.Namespace \o <<":">> \o t.Name

\* (t *Tool) ToolID()
ToolID(t) ==
    IF t.Namespace = EmptyString THEN t.Name
    ELSE t.Namespace \o <<":">> \o t.Name

\* What ParseToolID returns: (namespace, name, err).
Parsed(namespace, name, err) == [namespace |-> namespace, name |-> name, err |-> err]

\* A parse that splits on the colon and takes the parts as they come.
ParseToolIDNoPartCheck(id) ==
    IF id = EmptyString
    THEN Parsed(EmptyString, EmptyString, Err(<<ErrInvalidToolID>>, << >>))
    ELSE IF Count(id, ":") > 1
    THEN Parsed(EmptyString, EmptyString, Err(<<ErrInvalidToolID>>, << >>))
    ELSE IF Count(id, ":") = 0
    THEN Parsed(EmptyString, id, Nil)
    ELSE Parsed(SplitN2(id, ":")[1], SplitN2(id, ":")[2], Nil)

\* ParseToolID(id)
ParseToolID(id) ==
    IF id = EmptyString
    THEN Parsed(EmptyString, EmptyString, Err(<<ErrInvalidToolID>>, << >>))
    ELSE LET colonCount == Count(id, ":")
         IN  IF colonCount > 1
             THEN Parsed(EmptyString, EmptyString, Err(<<ErrInvalidToolID>>, << >>))
             ELSE IF colonCount = 0
             THEN Parsed(EmptyString, id, Nil)
             ELSE LET parts == SplitN2(id, ":")
                      namespace == parts[1]
                      name == parts[2]
                  IN  IF namespace = EmptyString \/ name = EmptyString
                      THEN Parsed(EmptyString, EmptyString,
                                  Err(<<ErrInvalidToolID>>, << >>))
                      ELSE Parsed(namespace, name, Nil)

\* The characters identifiers are made of here, and the longest identifier,
\* namespace and name drawn.
IDChars == {"a", "b", ":"}
MaxIDLen == 3
IDs == UNION {[1..n -> IDChars] : n \in 0..MaxIDLen}

\* Either an identifier to parse, or a tool to take the identifier of.
InitID ==
    /\ NoValidation
    /\ fn = "none"
    /\ ret = << >>
    /\ arg \in {[id |-> i, tool |-> ZeroTool] : i \in IDs}
              \cup {[id |-> EmptyString,
                     tool |-> [ZeroTool EXCEPT !.Namespace = ns, !.Name = n]] :
                        ns \in IDs, n \in IDs}

\* namespace, name, err := ParseToolID(id)
CallParseToolID ==
    /\ fn = "none"
    /\ fn' = "ParseToolID"
    /\ ret' = ParseToolID(arg.id)
    /\ UNCHANGED <<arg, valVars>>

\* id := tool.ToolID()
CallToolID ==
    /\ fn = "none"
    /\ fn' = "ToolID"
    /\ ret' = ToolID(arg.tool)
    /\ UNCHANGED <<arg, valVars>>

\* namespace, name, err := ParseToolID(tool.ToolID())
CallParseToolIDOfToolID ==
    /\ fn = "ToolID"
    /\ fn' = "ParseToolID(ToolID)"
    /\ ret' = ParseToolID(ret)
    /\ UNCHANGED <<arg, valVars>>

NextID ==
    \/ CallParseToolID
    \/ CallToolID
    \/ CallParseToolIDOfToolID

SpecID == InitID /\ [][NextID]_vars

----------------------------------------------------------------------------
(* NormalizeTags.  A character outside ASCII is written by its code point:  *)
(* "U+00C9" (E with acute, two bytes in UTF-8), "U+00E9" (e with acute),    *)
(* "U+00A0" (no-break space), "U+212A" (the Kelvin sign, three bytes).      *)

maxTagLen == 64
maxTagCount == 20

Lower ==
    <<"a", "b", "c", "d", "e", "f", "g", "h", "i", "j", "k", "l", "m",
      "n", "o", "p", "q", "r", "s", "t", "u", "v", "w", "x", "y", "z">>

Upper ==
    <<"A", "B", "C", "D", "E", "F", "G", "H", "I", "J", "K", "L", "M",
      "N", "O", "P", "Q", "R", "S", "T", "U", "V", "W", "X", "Y", "Z">>

Digits == {"0", "1", "2", "3", "4", "5", "6", "7", "8", "9"}

\* unicode.ToLower(r)
ToLowerRune(r) ==
    IF \E i \in 1..Len(Upper) : Upper[i] = r
    THEN Lower[CHOOSE i \in 1..Len(Upper) : Upper[i] = r]
    ELSE IF r = "U+00C9" THEN "U+00E9"
    ELSE IF r = "U+212A" THEN "k"
    ELSE r

\* strings.ToLower(s)
ToLower(s) == [i \in 1..Len(s) |-> ToLowerRune(s[i])]

\* unicode.IsSpace(r)
IsSpace(r) == r \in {" ", "\t", "\n", "U+00A0"}

\* strings.TrimSpace(s)
TrimSpace(s) ==
    LET solid == {i \in 1..Len(s) : ~IsSpace(s[i])}
    IN  IF solid = {} THEN EmptyString
        ELSE SubSeq(s, CHOOSE i \in solid : \A j \in solid : i <= j,
                       CHOOSE i \in solid : \A j \in solid : j <= i)

\* The positions of s where a field (a longest run without white space)
\* starts.
FieldStarts(s) ==
    {i \in 1..Len(s) : ~IsSpace(s[i]) /\ (i = 1 \/ IsSpace(s[i - 1]))}

\* The field of s that starts at position i.
FieldAt(s, i) ==
    SubSeq(s, i, CHOOSE j \in i..Len(s) :
                     /\ \A k \in i..j : ~IsSpace(s[k])
                     /\ (j = Len(s) \/ IsSpace(s[j + 1])))

\* strings.Fields(s): the fields of s, in their order in s.
Fields(s) ==
    [n \in 1..Cardinality(FieldStarts(s)) |->
        FieldAt(s, CHOOSE i \in FieldStarts(s) :
                       Cardinality({j \in FieldStarts(s) : j < i}) = n - 1)]

\* strings.Join(elems, sep)
RECURSIVE Join(_, _)
Join(elems, sep) ==
    IF Len(elems) = 0 THEN EmptyString
    ELSE IF Len(elems) = 1 THEN elems[1]
    ELSE elems[1] \o sep \o Join(Tail(elems), sep)

\* The test NormalizeTags makes of each byte.  Every byte of a character
\* outside ASCII fails it, so such a character is dropped whole.
AllowedByte(c) ==
    \/ \E i \in 1..Len(Lower) : Lower[i] = c
    \/ c \in Digits
    \/ c = "-" \/ c = "_" \/ c = "."

\* The body of the loop without its cut to maxTagLen.
NormalizeTagUncut(raw) ==
    LET t == TrimSpace(ToLower(raw))
    IN  IF t = EmptyString THEN EmptyString
        ELSE LET joined == Join(Fields(t), <<"-">>)
             IN  IF joined = EmptyString THEN EmptyString
                 ELSE SelectSeq(joined, AllowedByte)

\* The body of NormalizeTags's loop, from the raw tag to `normalized`; the
\* empty string where the loop goes on to the next tag.
NormalizeTag(raw) ==
    LET t == TrimSpace(ToLower(raw))
    IN  IF t = EmptyString THEN EmptyString
        ELSE LET joined == Join(Fields(t), <<"-">>)
             IN  IF joined = EmptyString THEN EmptyString
                 ELSE LET b == SelectSeq(joined, AllowedByte)
                      IN  IF Len(b) = 0 THEN EmptyString
                          ELSE IF Len(b) > maxTagLen THEN SubSeq(b, 1, maxTagLen)
                          ELSE b

\* A loop that remembers the raw tags it has seen, not the normalized ones.
RECURSIVE NormalizeFromSeenRaw(_, _, _, _)
NormalizeFromSeenRaw(tags, i, seen, out) ==
    IF i > Len(tags) THEN out
    ELSE IF Len(out) >= maxTagCount THEN out
    ELSE LET normalized == NormalizeTag(tags[i])
         IN  IF normalized = EmptyString THEN NormalizeFromSeenRaw(tags, i + 1, seen, out)
             ELSE IF tags[i] \in seen THEN NormalizeFromSeenRaw(tags, i + 1, seen, out)
             ELSE NormalizeFromSeenRaw(tags, i + 1, seen \cup {tags[i]},
                                       Append(out, normalized))

\* NormalizeTags's loop from the i-th tag on, with `seen` and `out` as they
\* stand.
RECURSIVE NormalizeFrom(_, _, _, _)
NormalizeFrom(tags, i, seen, out) ==
    IF i > Len(tags) THEN out
    ELSE IF Len(out) >= maxTagCount THEN out
    ELSE LET normalized == NormalizeTag(tags[i])
         IN  IF normalized = EmptyString THEN NormalizeFrom(tags, i + 1, seen, out)
             ELSE IF normalized \in seen THEN NormalizeFrom(tags, i + 1, seen, out)
             ELSE NormalizeFrom(tags, i + 1, seen \cup {normalized},
                                Append(out, normalized))

\* A loop that stops after maxTagCount inputs, kept or not.
NormalizeTagsCountingInputs(tags) ==
    NormalizeFrom(SubSeq(tags, 1, IF Len(tags) < maxTagCount THEN Len(tags)
                                  ELSE maxTagCount),
                  1, {}, << >>)

\* NormalizeTags(tags)
NormalizeTags(tags) == NormalizeFrom(tags, 1, {}, << >>)

\* The character c, n times.
Rep(c, n) == [i \in 1..n |-> c]

\* The documented example: "  GitHub Repos ", "GITHUB  repos", "  ci/cd  ".
ExampleTags ==
    << <<" ", " ", "G", "i", "t", "H", "u", "b", " ", "R", "e", "p", "o", "s", " ">>,
       <<"G", "I", "T", "H", "U", "B", " ", " ", "r", "e", "p", "o", "s">>,
       <<" ", " ", "c", "i", "/", "c", "d", " ", " ">> >>

\* Raw tags of the tests, and tags with characters outside ASCII.
CuratedTags ==
    { ExampleTags[1], ExampleTags[2], ExampleTags[3],
      <<" ", " ", "F", "o", "o", " ">>, <<"f", "o", "o">>,
      <<"B", "a", "r", " ", "B", "a", "z">>, <<"b", "a", "r", "-", "b", "a", "z">>,
      <<"A", "_", "B">>, <<"A", ".", "B">>,
      <<" ", " ", " ">>, <<"#", "#", "#">>, <<"o", "k", "!">>,
      <<"U+212A">>, <<"k">>, <<"a", "U+00A0", "b">>, <<"a", "\t", "\n", "b">>,
      <<"U+00C9", "a">> }

\* The characters of the short raw tags, and the bounds on the short inputs.
TagChars == {"A", "a", " ", "/", "-"}
MaxTagChars == 1
MaxTags == 2

ShortTags == CuratedTags \cup UNION {[1..n -> TagChars] : n \in 0..MaxTagChars}

\* Lists around the limit of maxTagCount: n distinct tags; each of them
\* twice; each of them after a blank tag; and "tag1" before 25 empty tags.
LongLists ==
    UNION { { [i \in 1..n |-> Rep("a", i)],
              [i \in 1..(2 * n) |-> Rep("a", (i + 1) \div 2)],
              [i \in 1..(2 * n) |-> IF i % 2 = 1 THEN <<" ">> ELSE Rep("a", i \div 2)] } :
            n \in (maxTagCount - 1)..(maxTagCount + 2) }
    \cup { <<<<"t", "a", "g", "1">>>> \o [i \in 1..25 |-> EmptyString] }

\* Lists of tags around the limit of maxTagLen.
LongTags ==
    UNION { { <<Rep("a", n)>>,
              <<Rep("a", n), Rep("a", n + 1)>>,
              <<<<"/">> \o Rep("A", n) \o <<" ", "b">>>>,
              <<Rep("U+00C9", n) \o Rep("b", n)>> } :
            n \in (maxTagLen - 1)..(maxTagLen + 2) }

TagLists ==
    UNION {[1..n -> ShortTags] : n \in 0..MaxTags}
    \cup {ExampleTags} \cup LongLists \cup LongTags

InitTags ==
    /\ NoValidation
    /\ fn = "none"
    /\ ret = << >>
    /\ arg \in TagLists

\* normalized := NormalizeTags(tags)
CallNormalizeTags ==
    /\ fn = "none"
    /\ fn' = "NormalizeTags"
    /\ ret' = NormalizeTags(arg)
    /\ UNCHANGED <<arg, valVars>>

\* again := NormalizeTags(normalized)
CallNormalizeTagsAgain ==
    /\ fn = "NormalizeTags"
    /\ fn' = "NormalizeTags(NormalizeTags)"
    /\ ret' = [once |-> ret, twice |-> NormalizeTags(ret)]
    /\ UNCHANGED <<arg, valVars>>

NextTags == CallNormalizeTags \/ CallNormalizeTagsAgain

SpecTags == InitTags /\ [][NextTags]_vars

----------------------------------------------------------------------------
(* Tool.Validate.  "0xFF" is a byte that is no UTF-8: ranging over the      *)
(* string yields U+FFFD for it.                                             *)

maxToolNameLen == 128

\* The number of bytes of a character in UTF-8.
Utf8Len(r) ==
    IF r \in {"U+00C9", "U+00E9", "U+00A0"} THEN 2
    ELSE IF r = "U+212A" THEN 3
    ELSE 1

\* len(s): the number of bytes of s.
ByteLen(s) ==
    Len(s) + Cardinality({i \in 1..Len(s) : Utf8Len(s[i]) = 2})
           + 2 * Cardinality({i \in 1..Len(s) : Utf8Len(s[i]) = 3})

\* The rune `for _, r := range s` yields for the character c.
RuneOf(c) == IF c = "0xFF" THEN "U+FFFD" ELSE c

\* A character check that lets the colon into names.
validToolNameRuneWithColon(r) ==
    \/ \E i \in 1..Len(Lower) : Lower[i] = r
    \/ \E i \in 1..Len(Upper) : Upper[i] = r
    \/ r \in Digits
    \/ r = "_" \/ r = "-" \/ r = "." \/ r = ":"

\* validToolNameRune(r)
validToolNameRune(r) ==
    \/ \E i \in 1..Len(Lower) : Lower[i] = r
    \/ \E i \in 1..Len(Upper) : Upper[i] = r
    \/ r \in Digits
    \/ r = "_" \/ r = "-" \/ r = "."

\* invalidChars after Tool.Validate's loop over name: the runes that are not
\* valid, each once, in the order in which they first occur.
InvalidChars(name) ==
    LET firsts == {i \in 1..Len(name) :
                      /\ ~validToolNameRune(RuneOf(name[i]))
                      /\ \A j \in 1..(i - 1) : RuneOf(name[j]) # RuneOf(name[i])}
    IN  [n \in 1..Cardinality(firsts) |->
            RuneOf(name[CHOOSE i \in firsts :
                            Cardinality({j \in firsts : j < i}) = n - 1])]

\* A Validate that measures the name in characters.
ToolValidateCountingRunes(t) ==
    IF t.isNil THEN Panic
    ELSE IF t.Name = EmptyString
    THEN Err(<<ErrInvalidTool, "name is required">>, << >>)
    ELSE IF Len(t.Name) > maxToolNameLen
    THEN Err(<<ErrInvalidTool, "name exceeds 128 characters">>, << >>)
    ELSE IF Len(InvalidChars(t.Name)) > 0
    THEN Err(<<ErrInvalidTool, "name contains invalid characters">>,
             InvalidChars(t.Name))
    ELSE IF t.InputSchema = NilSchema
    THEN Err(<<ErrInvalidTool, "inputSchema is required">>, << >>)
    ELSE Nil

\* (t *Tool) Validate()
ToolValidate(t) ==
    IF t.isNil THEN Panic
    ELSE IF t.Name = EmptyString
    THEN Err(<<ErrInvalidTool, "name is required">>, << >>)
    ELSE IF ByteLen(t.Name) > maxToolNameLen
    THEN Err(<<ErrInvalidTool, "name exceeds 128 characters">>, << >>)
    ELSE IF Len(InvalidChars(t.Name)) > 0
    THEN Err(<<ErrInvalidTool, "name contains invalid characters">>,
             InvalidChars(t.Name))
    ELSE IF t.InputSchema = NilSchema
    THEN Err(<<ErrInvalidTool, "inputSchema is required">>, << >>)
    ELSE Nil

\* The characters of the short names, and the longest short name.
NameChars == {"a", "Z", "7", "_", "-", ".", " ", ":", "U+00E9", "0xFF"}
MaxNameLen == 2

\* Names around the limit of maxToolNameLen bytes: valid ones, ones that
\* end in a two-byte character, ones that start with an invalid character,
\* and ones made of two-byte characters.
LongNames ==
    UNION { { Rep("a", n),
              Rep("a", n - 2) \o <<"U+00E9">>,
              <<"!">> \o Rep("a", n - 1),
              Rep("U+00E9", n \div 2) } :
            n \in (maxToolNameLen - 1)..(maxToolNameLen + 2) }

Names == LongNames \cup UNION {[1..n -> NameChars] : n \in 0..MaxNameLen}

\* The values of the fields Tool.Validate does not read, and of InputSchema:
\* absent, a nil *jsonschema.Schema, a schema, and values that are none.
Namespaces == {EmptyString, <<"n", ":", "s">>}
Versions == {EmptyString, <<"v", "1">>}
TagFields == {<< >>, <<<<" ">>, <<"T", "a", "g">>>>}
InputSchemas ==
    {NilSchema, PtrSchema(NilRef), MapSchema(MapOf(OwnedSchema(1))), StringSchema}
OutputSchemas == {NilSchema, RawSchema(<<Junk>>)}

InitToolValidate ==
    /\ NoValidation
    /\ fn = "none"
    /\ ret = << >>
    /\ arg \in {[ZeroTool EXCEPT !.Name = name, !.Namespace = ns, !.Version = v,
                                  !.Tags = tags, !.InputSchema = in,
                                  !.OutputSchema = out] :
                    name \in Names, ns \in Namespaces, v \in Versions,
                    tags \in TagFields, in \in InputSchemas, out \in OutputSchemas}

\* err := tool.Validate()
CallToolValidate ==
    /\ fn = "none"
    /\ fn' = "Tool.Validate"
    /\ ret' = ToolValidate(arg)
    /\ UNCHANGED <<arg, valVars>>

NextToolValidate == CallToolValidate

SpecToolValidate == InitToolValidate /\ [][NextToolValidate]_vars

----------------------------------------------------------------------------
(* The IDs of validated tools: Validate, ToolID and ParseToolID on the same *)
(* two tools                                                                *)

\* The characters of the namespaces and names, and their greatest length.
PartChars == {"a", ":"}
MaxPartLen == 2

Parts == UNION {[1..n -> PartChars] : n \in 0..MaxPartLen}

\* The tools: every namespace and name, with an input schema.
IDTools ==
    {[ZeroTool EXCEPT !.Namespace = ns, !.Name = name,
                      !.InputSchema = MapSchema(MapOf(OwnedSchema(1)))] :
        ns \in Parts \cup {<<"a", ":", "a">>}, name \in Parts}

InitToolIDs ==
    /\ NoValidation
    /\ fn = "none"
    /\ ret = << >>
    /\ arg \in IDTools \X IDTools

\* err := t.Validate(); id := t.ToolID(), for both tools
CallValidateAndToolID ==
    /\ fn = "none"
    /\ fn' = "Tool.Validate, Tool.ToolID"
    /\ ret' = [i \in 1..2 |-> [err |-> ToolValidate(arg[i]), id |-> ToolID(arg[i]),
                                parsed |-> Parsed(EmptyString, EmptyString, Pending)]]
    /\ UNCHANGED <<arg, valVars>>

\* namespace, name, err := ParseToolID(id), for both IDs
CallParseToolIDOfIDs ==
    /\ fn = "Tool.Validate, Tool.ToolID"
    /\ fn' = "ParseToolID"
    /\ ret' = [i \in 1..2 |-> [ret[i] EXCEPT !.parsed = ParseToolID(ret[i].id)]]
    /\ UNCHANGED <<arg, valVars>>

NextToolIDs == CallValidateAndToolID \/ CallParseToolIDOfIDs

SpecToolIDs == InitToolIDs /\ [][NextToolIDs]_vars

----------------------------------------------------------------------------
(* ToolBackend.Validate *)

ErrInvalidBackend == "invalid backend"

BackendKindMCP == "mcp"
BackendKindProvider == "provider"
BackendKindLocal == "local"

\* The detail pointers of a ToolBackend: nil, or a struct with its fields.
NilMCP == [isNil |-> TRUE, ServerName |-> EmptyString]
MCPBackend(serverName) == [isNil |-> FALSE, ServerName |-> serverName]
NilProvider == [isNil |-> TRUE, ProviderID |-> EmptyString, ToolID |-> EmptyString]
ProviderBackend(providerID, toolID) ==
    [isNil |-> FALSE, ProviderID |-> providerID, ToolID |-> toolID]
NilLocal == [isNil |-> TRUE, Name |-> EmptyString]
LocalBackend(name) == [isNil |-> FALSE, Name |-> name]

\* A Validate whose provider case asks for the ProviderID alone.
BackendValidateNoToolID(b) ==
    CASE b.Kind = BackendKindMCP ->
           IF b.MCP.isNil \/ b.MCP.ServerName = EmptyString
           THEN Err(<<ErrInvalidBackend, "MCP backend requires ServerName">>, << >>)
           ELSE Nil
      [] b.Kind = BackendKindProvider ->
           IF b.Provider.isNil
           THEN Err(<<ErrInvalidBackend, "Provider backend requires Provider details">>,
                    << >>)
           ELSE IF b.Provider.ProviderID = EmptyString
           THEN Err(<<ErrInvalidBackend, "Provider backend requires ProviderID">>, << >>)
           ELSE Nil
      [] b.Kind = BackendKindLocal ->
           IF b.Local.isNil \/ b.Local.Name = EmptyString
           THEN Err(<<ErrInvalidBackend, "Local backend requires Name">>, << >>)
           ELSE Nil
      [] OTHER -> Err(<<ErrInvalidBackend, "unknown backend kind">>, <<b.Kind>>)

\* (b ToolBackend) Validate()
BackendValidate(b) ==
    CASE b.Kind = BackendKindMCP ->
           IF b.MCP.isNil \/ b.MCP.ServerName = EmptyString
           THEN Err(<<ErrInvalidBackend, "MCP backend requires ServerName">>, << >>)
           ELSE Nil
      [] b.Kind = BackendKindProvider ->
           IF b.Provider.isNil
           THEN Err(<<ErrInvalidBackend, "Provider backend requires Provider details">>,
                    << >>)
           ELSE IF b.Provider.ProviderID = EmptyString
           THEN Err(<<ErrInvalidBackend, "Provider backend requires ProviderID">>, << >>)
           ELSE IF b.Provider.ToolID = EmptyString
           THEN Err(<<ErrInvalidBackend, "Provider backend requires ToolID">>, << >>)
           ELSE Nil
      [] b.Kind = BackendKindLocal ->
           IF b.Local.isNil \/ b.Local.Name = EmptyString
           THEN Err(<<ErrInvalidBackend, "Local backend requires Name">>, << >>)
           ELSE Nil
      [] OTHER -> Err(<<ErrInvalidBackend, "unknown backend kind">>, <<b.Kind>>)

\* The kinds drawn: the three constants, the zero value, and strings that
\* are no constant.
BackendKinds ==
    {BackendKindMCP, BackendKindProvider, BackendKindLocal, "", "MCP", "http"}

MCPDetails == {NilMCP, MCPBackend(EmptyString), MCPBackend(<<"s">>)}
ProviderDetails ==
    {NilProvider} \cup {ProviderBackend(p, t) : p \in {EmptyString, <<"p">>},
                                                t \in {EmptyString, <<"t">>}}
LocalDetails == {NilLocal, LocalBackend(EmptyString), LocalBackend(<<"n">>)}

InitBackend ==
    /\ NoValidation
    /\ fn = "none"
    /\ ret = << >>
    /\ arg \in {[Kind |-> k, MCP |-> m, Provider |-> p, Local |-> l] :
                    k \in BackendKinds, m \in MCPDetails, p \in ProviderDetails,
                    l \in LocalDetails}

\* err := backend.Validate()
CallBackendValidate ==
    /\ fn = "none"
    /\ fn' = "ToolBackend.Validate"
    /\ ret' = BackendValidate(arg)
    /\ UNCHANGED <<arg, valVars>>

NextBackend == CallBackendValidate

SpecBackend == InitBackend /\ [][NextBackend]_vars

----------------------------------------------------------------------------
(* ToMCPJSON and FromMCPJSON.  A JSON object is the sequence of its        *)
(* members, each a key and the tokens of its value; a JSON string is the    *)
(* sequence of its characters as written in the text.                       *)

\* How encoding/json writes one character of a Go string: a byte that is no
\* UTF-8 becomes U+FFFD, a quote and a backslash are escaped.
EncodeChar(c) ==
    IF c = "0xFF" THEN "U+FFFD"
    ELSE IF c = "\"" THEN "\\\""
    ELSE IF c = "\\" THEN "\\\\"
    ELSE c

\* How encoding/json reads one character of a JSON string back.
DecodeChar(c) ==
    IF c = "\\\"" THEN "\""
    ELSE IF c = "\\\\" THEN "\\"
    ELSE c

EncodeString(str) == [i \in 1..Len(str) |-> EncodeChar(str[i])]
DecodeString(text) == [i \in 1..Len(text) |-> DecodeChar(text[i])]

\* One member of a JSON object.
Field(key, val) == [k |-> key, v |-> val]

\* json.Marshal of a schema field (an `any`): null for nil and for an empty
\* json.RawMessage, an error for a value that cannot be encoded and for a
\* json.RawMessage that is no JSON, else the tokens of the value.
EncodeAny(schema) ==
    CASE schema.kind = "nil" -> [err |-> FALSE, toks |-> <<"null">>]
      [] schema.kind = "map[string]any" ->
           IF Marshal(schema.m).err
           THEN [err |-> TRUE, toks |-> << >>]
           ELSE [err |-> FALSE,
                 toks |-> <<"{">> \o SelectSeq(KeyOrder, LAMBDA k : k \in DOMAIN schema.m)
                                 \o <<"}">>]
      [] schema.kind = "json.RawMessage" ->
           IF Len(schema.bytes) = 0
           THEN [err |-> FALSE, toks |-> <<"null">>]
           ELSE IF ~ValidObject(schema.bytes)
           THEN [err |-> TRUE, toks |-> << >>]
           ELSE [err |-> FALSE, toks |-> <<"{", "}">>]
      [] OTHER -> [err |-> FALSE, toks |-> <<"value">>]

\* The members json.Marshal writes for the fields of mcp.Tool that the
\* repository sets, in the order of the struct: "description,omitempty",
\* "inputSchema", "name", "outputSchema,omitempty".
MCPFields(t) ==
    (IF t.Description = EmptyString THEN << >>
     ELSE <<Field("description", EncodeString(t.Description))>>)
    \o <<Field("inputSchema", EncodeAny(t.InputSchema).toks),
         Field("name", EncodeString(t.Name))>>
    \o (IF t.OutputSchema = NilSchema THEN << >>
        ELSE <<Field("outputSchema", EncodeAny(t.OutputSchema).toks)>>)

\* The members json.Marshal adds for the fields of Tool itself:
\* "namespace,omitempty", "version,omitempty", "tags,omitempty".
ExtensionFields(t) ==
    (IF t.Namespace = EmptyString THEN << >>
     ELSE <<Field("namespace", EncodeString(t.Namespace))>>)
    \o (IF t.Version = EmptyString THEN << >>
        ELSE <<Field("version", EncodeString(t.Version))>>)
    \o (IF Len(t.Tags) = 0 THEN << >>
        ELSE <<Field("tags", <<"[", "]">>)>>)

\* What the two serialisers return: (data, err).
Marshalled(data, failed) == [data |-> data, err |-> failed]

\* A ToMCPJSON that marshals the whole Tool.
ToMCPJSONWholeTool(t) ==
    IF EncodeAny(t.InputSchema).err \/ EncodeAny(t.OutputSchema).err
    THEN Marshalled(<< >>, TRUE)
    ELSE Marshalled(MCPFields(t) \o ExtensionFields(t), FALSE)

\* (t *Tool) ToMCPJSON(): json.Marshal(t.Tool)
ToMCPJSON(t) ==
    IF EncodeAny(t.InputSchema).err \/ EncodeAny(t.OutputSchema).err
    THEN Marshalled(<< >>, TRUE)
    ELSE Marshalled(MCPFields(t), FALSE)

\* The string json.Unmarshal stores for the member `key` of data: the zero
\* value if there is none, the last one if there are several.
DecodedString(data, key) ==
    LET at == {i \in 1..Len(data) : data[i].k = key}
    IN  IF at = {} THEN EmptyString
        ELSE DecodeString(data[CHOOSE i \in at : \A j \in at : j <= i].v)

\* The value json.Unmarshal stores into a schema field for the member `key`.
DecodedAny(data, key) ==
    LET at == {i \in 1..Len(data) : data[i].k = key}
    IN  IF at = {} THEN NilSchema
        ELSE IF data[CHOOSE i \in at : \A j \in at : j <= i].v = <<"null">>
        THEN NilSchema
        ELSE [kind |-> "decoded"]

\* FromMCPJSON(data): (tool, err).  Text that is no JSON object (none at all,
\* here) is refused; the members mcp.Tool has no field for are ignored, and
\* Namespace, Version and Tags stay at their zero values.
FromMCPJSON(data) ==
    IF Len(data) = 0
    THEN [tool |-> [ZeroTool EXCEPT !.isNil = TRUE], err |-> TRUE]
    ELSE [tool |-> [ZeroTool EXCEPT !.Name = DecodedString(data, "name"),
                                    !.Description = DecodedString(data, "description"),
                                    !.InputSchema = DecodedAny(data, "inputSchema"),
                                    !.OutputSchema = DecodedAny(data, "outputSchema")],
          err |-> FALSE]

\* The characters of names and descriptions here, and their longest length.
TextChars == {"a", "\"", "0xFF"}
MaxTextLen == 2
Texts == UNION {[1..n -> TextChars] : n \in 0..MaxTextLen}

\* The schema values of the tools serialised here: absent, a map, a map
\* holding a value JSON has no form for, and raw bytes that are no JSON.
JSONSchemas ==
    {NilSchema, MapSchema(MapOf(OwnedSchema(1))),
     MapSchema([k \in {"type"} |-> Unencodable]), RawSchema(<<Junk>>)}

InitJSON ==
    /\ NoValidation
    /\ fn = "none"
    /\ ret = << >>
    /\ arg \in {[ZeroTool EXCEPT !.Name = name, !.Description = d, !.Namespace = ns,
                                  !.Version = v, !.Tags = tags, !.InputSchema = in,
                                  !.OutputSchema = out] :
                    name \in Texts, d \in Texts, ns \in Namespaces, v \in Versions,
                    tags \in TagFields, in \in JSONSchemas,
                    out \in {NilSchema, MapSchema(MapOf(OwnedSchema(2)))}}

\* data, err := tool.ToMCPJSON()
CallToMCPJSON ==
    /\ fn = "none"
    /\ fn' = "ToMCPJSON"
    /\ ret' = ToMCPJSON(arg)
    /\ UNCHANGED <<arg, valVars>>

\* restored, err := FromMCPJSON(data)
CallFromMCPJSON ==
    /\ fn = "ToMCPJSON"
    /\ fn' = "FromMCPJSON(ToMCPJSON)"
    /\ ret' = [json |-> ret, back |-> FromMCPJSON(ret.data)]
    /\ UNCHANGED <<arg, valVars>>

NextJSON ==
    \/ CallToMCPJSON
    \/ CallFromMCPJSON

SpecJSON == InitJSON /\ [][NextJSON]_vars

----------------------------------------------------------------------------
(* Properties *)

\* Caller p has finished a call of the operation op.
Finished(p, op) == pc[p] = "done" /\ call[p].op = op

\* Caller p has finished a call that ran Validate (directly or through
\* ValidateInput / ValidateOutput); call[p].schema is Validate's schema.
Validated(p) == pc[p] = "done" /\ stages[p] # << >>

\* The call of caller p ran the stage st.
Ran(p, st) == \E i \in 1..Len(stages[p]) : stages[p][i] = st

\* The outcome of a call: success, or the kind of its error.
Class(r) == IF r.kind = "error" THEN r.msg[1] ELSE r.kind

\* The markers of the two supported families.
SupportedMarker(m) ==
    \/ m = EmptyString
    \/ m = <<"https://json-schema.org/draft/2020-12", "/", "schema">>
    \/ m = <<"http://json-schema.org/draft-07", "/", "schema", "#">>
    \/ m = <<"http://json-schema.org/draft-07", "/", "schema">>
    \/ HasPrefix(m, <<"https://json-schema.org/draft/2020-12", "/">>)
    \/ HasPrefix(m, <<"http://json-schema.org/draft-07", "/">>)

\* The heap before any call: the callers' objects as they built them.
FreshHeap ==
    [r \in Refs |-> IF r.own = "caller" THEN OwnedSchema(r.n) ELSE ZeroSchema]

\* C1: ValidateInput with a nil tool returns an error classified as
\* ErrInvalidSchema, for every args value: an error value and no crash, and
\* no stage of Validate runs.
C1_NilToolInputIsInvalidSchema ==
    \A p \in Callers :
        (Finished(p, "ValidateInput") /\ call[p].tool.isNil) =>
            /\ IsErr(result[p], ErrInvalidSchema)
            /\ ~crashed
            /\ stages[p] = << >>

\* C2: ValidateOutput with a nil tool returns an error classified as
\* ErrInvalidSchema, for every result value: it neither succeeds nor crashes.
C2_NilToolOutputIsInvalidSchema ==
    \A p \in Callers :
        (Finished(p, "ValidateOutput") /\ call[p].tool.isNil) =>
            /\ IsErr(result[p], ErrInvalidSchema)
            /\ ~crashed

\* C10: ValidateInput on a non-nil tool whose InputSchema is nil returns an
\* error classified as ErrInvalidSchema, for every args value, and no stage
\* of Validate runs.
C10_NilInputSchemaIsInvalidSchema ==
    \A p \in Callers :
        (/\ Finished(p, "ValidateInput")
         /\ ~call[p].tool.isNil
         /\ call[p].tool.InputSchema = NilSchema) =>
            /\ IsErr(result[p], ErrInvalidSchema)
            /\ stages[p] = << >>

\* C10's case: a call with a tool that has an output schema but no input
\* schema has returned, with a non-empty object as arguments.
C10_Witness ==
    /\ Finished(1, "ValidateInput")
    /\ ~call[1].tool.isNil
    /\ call[1].tool.InputSchema = NilSchema
    /\ call[1].tool.OutputSchema # NilSchema
    /\ call[1].instance = InstObject({"extra"})
    /\ result[1].kind = "error"

\* C3: while Validate runs on a *jsonschema.Schema passed by reference, no
\* step changes the dialect marker of the caller's object, so the marker
\* after the call is the marker before it, whatever the marker is and
\* whether the call succeeds or fails.
C3_CallerMarkerUnchanged ==
    [][\A p \in Callers :
          (/\ pc[p] \notin {"idle", "done"}
           /\ call[p].schema.kind = "*jsonschema.Schema"
           /\ call[p].schema.ref # NilRef) =>
              objs'[call[p].schema.ref].Schema = objs[call[p].schema.ref].Schema]_vars

\* C3's case: Validate has succeeded on a caller's draft-07 object; the
\* call's copy has lost the marker and the caller's object has kept it.
C3_Witness ==
    /\ Finished(1, "Validate")
    /\ call[1].schema = PtrSchema(CallerRef(4))
    /\ result[1] = Nil
    /\ objs[Local(1)].Schema = EmptyString
    /\ objs[CallerRef(4)].Schema = SchemaDialectDraft07

\* C4: the dialect check accepts a schema if and only if its marker is
\* empty, one of the three recognised URIs, or starts with one of the two
\* family prefixes; every other marker is rejected with ErrUnsupportedSchema.
C4_DialectAcceptedIffSupported ==
    \A p \in Callers :
        (pc[p] \in {"Resolve", "done"} /\ call[p].schema.kind = "jsonschema.Schema") =>
            LET m == call[p].schema.val.Schema
            IN  /\ (pc[p] = "Resolve") <=> SupportedMarker(m)
                /\ (pc[p] = "done") => IsErr(result[p], ErrUnsupportedSchema)

\* C4's case: the check has accepted a marker that only shares the draft-07
\* prefix.
C4_Witness ==
    /\ pc[1] = "Resolve"
    /\ call[1].schema.val.Schema = <<"http://json-schema.org/draft-07", "/", "#">>

\* C5: Validate on a schema whose marker is an unsupported dialect returns
\* an ErrUnsupportedSchema error naming that marker; resolution and the
\* check of the instance never run, and every instance gets the same error.
C5_UnsupportedDialectWhateverInstance ==
    \A p \in Callers, n \in 1..NumOwned :
        (/\ Validated(p)
         /\ call[p].schema \in ReprsOf(n)
         /\ ~SupportedMarker(OwnedSchema(n).Schema)) =>
            /\ IsErr(result[p], ErrUnsupportedSchema)
            /\ result[p].arg = OwnedSchema(n).Schema
            /\ stages[p] = <<"toJSONSchema", "checkDialect">>
            /\ \A i \in Instances :
                  Validate(objs, call[p].schema, i, Local(p)).res = result[p]

\* C5's case: Validate has returned on a draft-04 schema given as a map,
\* with an instance that satisfies the schema's type.
C5_Witness ==
    /\ Finished(1, "Validate")
    /\ call[1].schema = MapSchema(MapOf(OwnedSchema(7)))
    /\ call[1].instance = InstString
    /\ result[1].kind = "error"

\* The URIs the loader is asked for.
URIs == {ExternalURI} \cup {CuratedMarkers[i] : i \in 2..Len(CuratedMarkers)}

\* C6: the loader refuses every URI with an ErrExternalRef error naming it
\* and returns no schema; so Validate on a schema with an external $ref
\* never succeeds, and whenever its resolution asks for the reference the
\* call fails with a resolution error carrying ErrExternalRef, for every
\* instance, without the instance being checked.
C6_ExternalRefBlocked ==
    /\ \A u \in URIs :
          /\ blockExternalRefs(u).schema = NilRef
          /\ IsErr(blockExternalRefs(u).err, ErrExternalRef)
          /\ blockExternalRefs(u).err.arg = u
    /\ \A p \in Callers, n \in 1..NumOwned :
          (/\ Validated(p)
           /\ call[p].schema \in ReprsOf(n)
           /\ OwnedSchema(n).Ref = ExternalURI) =>
              /\ result[p] # Nil
              /\ SupportedMarker(OwnedSchema(n).Schema) =>
                    /\ Class(result[p]) = "schema resolution failed"
                    /\ IsErr(result[p], ErrExternalRef)
                    /\ result[p].arg = ExternalURI
                    /\ Ran(p, "blockExternalRefs")
                    /\ ~Ran(p, "Validate")

\* C6's case: Validate has returned on {"$ref": "https://example.com/x.json"}
\* given as a map, and the loader was invoked.
C6_Witness ==
    /\ Finished(1, "Validate")
    /\ call[1].schema = MapSchema(MapOf(OwnedSchema(2 * Len(CuratedMarkers) + 1)))
    /\ call[1].instance = InstObject({})
    /\ Ran(1, "blockExternalRefs")

\* C7: whichever representation of a logical schema Validate was called
\* with, every other representation of that schema (by reference, by value,
\* map, json.RawMessage, []byte) gives the same outcome on that instance.
C7_RepresentationsAgree ==
    \A p \in Callers, n \in 1..NumOwned :
        (Finished(p, "Validate") /\ call[p].schema \in ReprsOf(n)) =>
            \A r \in ReprsOf(n) :
                Class(Validate(objs, r, call[p].instance, Local(p)).res)
                    = Class(result[p])

\* C7's case: Validate has failed on the instance for a draft-07 schema
\* {"type":"object"} given by reference.
C7_Witness ==
    /\ Finished(1, "Validate")
    /\ call[1].schema = PtrSchema(CallerRef(Len(CuratedMarkers) + 4))
    /\ call[1].instance = InstString
    /\ Class(result[1]) = "validation failed"

\* C8: whatever calls came before, a call of Validate returns the outcome
\* that the same call returns on a validator that has never been used.
C8_HistoryIndependent ==
    \A p \in Callers :
        Validated(p) =>
            Class(result[p])
                = Class(Validate(FreshHeap, call[p].schema, call[p].instance,
                                 Local(p)).res)

\* C8's case: Validate has returned (rejecting an empty json.RawMessage)
\* after an earlier call that failed on a draft-04 schema and left its
\* working object behind.
C8_Witness ==
    /\ Finished(1, "Validate")
    /\ call[1].schema = RawSchema(<< >>)
    /\ IsErr(result[1], ErrInvalidSchema)
    /\ objs[Local(1)].Schema = CuratedMarkers[7]

\* C9: with two callers validating against shared schema objects at once,
\* no step writes to a shared object, the copy a call takes of a shared
\* object carries the object's original marker (never one another call
\* cleared), and every call returns what it returns when run alone.
C9_ConcurrentCallsIsolated ==
    /\ [](\A p \in Callers :
            /\ (pc[p] = "checkDialect" /\ call[p].schema.kind = "*jsonschema.Schema") =>
                  /\ js[p] = Local(p)
                  /\ objs[js[p]] = OwnedSchema(call[p].schema.ref.n)
            /\ Validated(p) =>
                  result[p] = Validate(FreshHeap, call[p].schema,
                                       call[p].instance, Local(p)).res)
    /\ [][\A n \in 1..NumOwned : objs'[CallerRef(n)] = objs[CallerRef(n)]]_vars

\* C9's case: two calls share the draft-07 object; the first has cleared
\* the marker of its copy and the second is about to check its own copy.
C9_Witness ==
    /\ call[1].schema = PtrSchema(CallerRef(4))
    /\ call[2].schema = PtrSchema(CallerRef(4))
    /\ pc[1] = "Resolve"
    /\ pc[2] = "checkDialect"
    /\ objs[Local(1)].Schema = EmptyString
    /\ objs[Local(2)].Schema = SchemaDialectDraft07

\* C11: ValidateOutput on a non-nil tool whose OutputSchema is nil returns
\* nil for every result value and runs no stage of Validate; and every other
\* call of an entry point that returns nil has checked the instance.
C11_NilOutputSchemaIsOnlySoftSuccess ==
    \A p \in Callers :
        /\ (/\ Finished(p, "ValidateOutput")
            /\ ~call[p].tool.isNil
            /\ call[p].tool.OutputSchema = NilSchema) =>
               /\ result[p] = Nil
               /\ stages[p] = << >>
        /\ (pc[p] = "done" /\ result[p] = Nil /\ ~Ran(p, "Validate")) =>
               /\ call[p].op = "ValidateOutput"
               /\ ~call[p].tool.isNil
               /\ call[p].tool.OutputSchema = NilSchema

\* C11's case: ValidateOutput has returned nil for a tool that has an input
\* schema and no output schema, on a result the input schema would refuse.
C11_Witness ==
    /\ Finished(1, "ValidateOutput")
    /\ ~call[1].tool.isNil
    /\ call[1].tool.OutputSchema = NilSchema
    /\ call[1].tool.InputSchema = PtrSchema(CallerRef(Len(CuratedMarkers) + 4))
    /\ call[1].instance = InstString
    /\ result[1] = Nil

\* The two byte-container types of a schema argument.
ByteKinds == {"json.RawMessage", "[]byte"}

\* The same bytes in the other container type.
OtherContainer(schema) ==
    IF schema.kind = "[]byte" THEN RawSchema(schema.bytes) ELSE ByteSchema(schema.bytes)

\* C12: Validate with a schema given as bytes that are empty, or non-empty
\* but not the text of a schema, returns an ErrInvalidSchema error after the
\* normalisation alone (no dialect check, resolution or instance check), and
\* the other byte-container type holding the same bytes gives that error too.
C12_BadBytesAreInvalidSchema ==
    \A p \in Callers :
        (/\ Validated(p)
         /\ call[p].schema.kind \in ByteKinds
         /\ (call[p].schema.bytes = << >> \/ ~ValidObject(call[p].schema.bytes))) =>
            /\ IsErr(result[p], ErrInvalidSchema)
            /\ stages[p] = <<"toJSONSchema">>
            /\ Validate(objs, OtherContainer(call[p].schema), call[p].instance,
                        Local(p)).res = result[p]

\* C12's case: Validate has returned on a []byte holding an object that is
\* never closed.
C12_Witness ==
    /\ Finished(1, "Validate")
    /\ call[1].schema = ByteSchema(<<LBrace, Member("type", <<"string">>)>>)
    /\ call[1].instance = InstString
    /\ result[1].kind = "error"

\* The dynamic types toJSONSchema has a case for.
SchemaKinds ==
    {"*jsonschema.Schema", "jsonschema.Schema", "json.RawMessage", "[]byte",
     "map[string]any"}

\* C13: Validate with a schema argument of any other type (a string, an
\* int, the untyped nil) returns an ErrInvalidSchema error whose message
\* names what it was given, for every instance, after the normalisation alone.
C13_OtherTypesAreInvalidSchema ==
    \A p \in Callers :
        (Finished(p, "Validate") /\ call[p].schema.kind \notin SchemaKinds) =>
            /\ IsErr(result[p], ErrInvalidSchema)
            /\ result[p].arg # << >>
            /\ call[p].schema.kind # "nil" => result[p].arg = <<call[p].schema.kind>>
            /\ stages[p] = <<"toJSONSchema">>
            /\ \A i \in Instances :
                  Validate(objs, call[p].schema, i, Local(p)).res = result[p]

\* C13's case: Validate has returned on a schema argument that is a string.
C13_Witness ==
    /\ Finished(1, "Validate")
    /\ call[1].schema = StringSchema
    /\ call[1].instance = InstObject({"extra"})
    /\ result[1].kind = "error"

C15_ParseToolIDFailsExactlyWhenMalformed ==
    fn = "ParseToolID" =>
        LET id == arg.id
            colons == {i \in 1..Len(id) : id[i] = ":"}
            malformed == \/ Len(id) = 0
                         \/ Cardinality(colons) > 1
                         \/ /\ Cardinality(colons) = 1
                            /\ (id[1] = ":" \/ id[Len(id)] = ":")
        IN  /\ malformed <=> ret.err # Nil
            /\ malformed =>
                  /\ ret.err = [kind |-> "error", msg |-> <<"invalid tool ID format">>,
                                arg |-> << >>]
                  /\ ret.namespace = << >>
                  /\ ret.name = << >>
            /\ (~malformed /\ colons = {}) =>
                  ret.namespace = << >> /\ ret.name = id
            /\ (~malformed /\ colons # {}) =>
                  \E i \in colons :
                      /\ ret.namespace = SubSeq(id, 1, i - 1)
                      /\ ret.name = SubSeq(id, i + 1, Len(id))

\* C15's case: ParseToolID has refused an identifier with one ':' and
\* nothing after it.
C15_Witness ==
    /\ fn = "ParseToolID"
    /\ arg.id = <<"a", "b", ":">>
    /\ ret.err # Nil

\* C16: for every tool whose Name is not empty and whose Namespace and Name
\* hold no ':', ParseToolID(tool.ToolID()) succeeds and returns the tool's
\* Namespace and Name, an empty Namespace included.
C16_ToolIDRoundTrip ==
    (/\ fn = "ParseToolID(ToolID)"
     /\ Len(arg.tool.Name) > 0
     /\ \A i \in 1..Len(arg.tool.Name) : arg.tool.Name[i] # ":"
     /\ \A i \in 1..Len(arg.tool.Namespace) : arg.tool.Namespace[i] # ":") =>
        /\ ret.err = Nil
        /\ ret.namespace = arg.tool.Namespace
        /\ ret.name = arg.tool.Name

\* C16's case: the identifier of a tool without a namespace has been parsed
\* back.
C16_Witness ==
    /\ fn = "ParseToolID(ToolID)"
    /\ arg.tool.Namespace = << >>
    /\ arg.tool.Name = <<"a", "b">>
    /\ ret.err = Nil

\* The characters [a-z0-9-_.].
TagAlphabet ==
    {"a", "b", "c", "d", "e", "f", "g", "h", "i", "j", "k", "l", "m",
     "n", "o", "p", "q", "r", "s", "t", "u", "v", "w", "x", "y", "z",
     "0", "1", "2", "3", "4", "5", "6", "7", "8", "9", "-", "_", "."}

\* C17: for every input list NormalizeTags returns at most 20 tags, each of
\* them non-empty, at most 64 bytes long, made of characters of [a-z0-9-_.]
\* only, and different from every other returned tag.
C17_NormalizedTagsWellFormed ==
    fn = "NormalizeTags" =>
        /\ Len(ret) <= 20
        /\ \A i \in 1..Len(ret) :
              /\ Len(ret[i]) > 0
              /\ Len(ret[i]) <= 64
              /\ \A k \in 1..Len(ret[i]) : ret[i][k] \in TagAlphabet
              /\ \A j \in 1..Len(ret) : j # i => ret[j] # ret[i]

\* C17's case: two tags longer than 64 bytes that differ only past the 64th
\* byte have been normalized to one tag of 64 bytes.
C17_Witness ==
    /\ fn = "NormalizeTags"
    /\ Len(arg) = 2
    /\ Len(arg[1]) = 65
    /\ Len(arg[2]) = 66
    /\ Len(ret) = 1
    /\ Len(ret[1]) = 64

\* The positions of the input tags whose normalized form is not empty and
\* occurs there for the first time.
FirstOccurrences(tags) ==
    {i \in 1..Len(tags) :
        /\ NormalizeTag(tags[i]) # << >>
        /\ \A j \in 1..(i - 1) : NormalizeTag(tags[j]) # NormalizeTag(tags[i])}

\* C18: the result of NormalizeTags is the sequence of the distinct non-empty
\* normalized forms of the input tags in order of first occurrence, cut to
\* the first 20; inputs that normalize to the empty string or to a tag
\* already seen are dropped and do not count toward the 20.
C18_DedupePreservingOrder ==
    fn = "NormalizeTags" =>
        LET firsts == FirstOccurrences(arg)
        IN  /\ Len(ret) = (IF Cardinality(firsts) < 20 THEN Cardinality(firsts) ELSE 20)
            /\ \A k \in 1..Len(ret) :
                  \E i \in firsts :
                      /\ Cardinality({j \in firsts : j < i}) = k - 1
                      /\ ret[k] = NormalizeTag(arg[i])

\* C18's case: of 42 inputs, every other one blank, the first 20 distinct
\* tags have been returned, the 20th of them from the 40th input.
C18_Witness ==
    /\ fn = "NormalizeTags"
    /\ Len(arg) = 42
    /\ arg[1] = <<" ">>
    /\ Len(ret) = 20
    /\ ret[20] = NormalizeTag(arg[40])

\* C19: NormalizeTags(["  GitHub Repos ", "GITHUB  repos", "  ci/cd  "])
\* returns ["github-repos", "ci-cd"].
C19_DocumentedExample ==
    (fn = "NormalizeTags" /\ arg = ExampleTags) =>
        ret = << <<"g", "i", "t", "h", "u", "b", "-", "r", "e", "p", "o", "s">>,
                 <<"c", "i", "-", "c", "d">> >>

\* The characters [A-Za-z0-9_.-].
NameAlphabet ==
    TagAlphabet \cup
    {"A", "B", "C", "D", "E", "F", "G", "H", "I", "J", "K", "L", "M",
     "N", "O", "P", "Q", "R", "S", "T", "U", "V", "W", "X", "Y", "Z"}

\* C20: Tool.Validate returns nil if and only if Name is non-empty, at most
\* 128 bytes long, made of characters of [A-Za-z0-9_.-] only, and InputSchema
\* is non-nil; otherwise it returns an ErrInvalidTool error.  The checks are
\* made in that order (the error is that of the first check that fails), and
\* the content of the schemas, Namespace, Version and Tags play no part.
C20_ToolValidateChecksNameThenSchema ==
    fn = "Tool.Validate" =>
        LET named == Len(arg.Name) > 0
            short == ByteLen(arg.Name) <= 128
            clean == \A i \in 1..Len(arg.Name) : arg.Name[i] \in NameAlphabet
            schema == arg.InputSchema # NilSchema
        IN  /\ ret = Nil <=> (named /\ short /\ clean /\ schema)
            /\ ret # Nil => IsErr(ret, "invalid tool")
            /\ ~named => ret.msg[2] = "name is required"
            /\ (named /\ ~short) => ret.msg[2] = "name exceeds 128 characters"
            /\ (named /\ short /\ ~clean) =>
                  ret.msg[2] = "name contains invalid characters"
            /\ (named /\ short /\ clean /\ ~schema) =>
                  ret.msg[2] = "inputSchema is required"
            /\ \A ns \in Namespaces, v \in Versions, tags \in TagFields,
                  in \in InputSchemas \ {NilSchema}, out \in OutputSchemas :
                  schema =>
                     ToolValidate([arg EXCEPT !.Namespace = ns, !.Version = v,
                                              !.Tags = tags, !.InputSchema = in,
                                              !.OutputSchema = out]) = ret

\* C20's case: a name of 65 two-byte characters (130 bytes) has been
\* refused for its length, on a tool without an input schema.
C20_Witness ==
    /\ fn = "Tool.Validate"
    /\ Len(arg.Name) = 65
    /\ arg.Name[1] = "U+00E9"
    /\ arg.InputSchema = NilSchema
    /\ ret.kind = "error"

\* C21: ToolBackend.Validate returns nil if and only if Kind is mcp with a
\* non-nil MCP detail that has a ServerName, or provider with a non-nil
\* Provider detail that has a ProviderID and a ToolID, or local with a
\* non-nil Local detail that has a Name; every other backend, of an unknown
\* or empty Kind too, gets an ErrInvalidBackend error; the details that do
\* not belong to Kind change nothing.
C21_BackendValidByKindDetail ==
    fn = "ToolBackend.Validate" =>
        LET mcpOK == ~arg.MCP.isNil /\ Len(arg.MCP.ServerName) > 0
            providerOK == /\ ~arg.Provider.isNil
                          /\ Len(arg.Provider.ProviderID) > 0
                          /\ Len(arg.Provider.ToolID) > 0
            localOK == ~arg.Local.isNil /\ Len(arg.Local.Name) > 0
            valid == \/ arg.Kind = "mcp" /\ mcpOK
                     \/ arg.Kind = "provider" /\ providerOK
                     \/ arg.Kind = "local" /\ localOK
        IN  /\ ret = Nil <=> valid
            /\ ~valid => IsErr(ret, "invalid backend")
            /\ \A m \in MCPDetails, p \in ProviderDetails, l \in LocalDetails :
                  BackendValidate([Kind |-> arg.Kind,
                                   MCP |-> IF arg.Kind = "mcp" THEN arg.MCP ELSE m,
                                   Provider |-> IF arg.Kind = "provider"
                                                THEN arg.Provider ELSE p,
                                   Local |-> IF arg.Kind = "local" THEN arg.Local
                                             ELSE l]) = ret

\* C21's case: a provider backend with a ProviderID and no ToolID, and with
\* complete MCP and Local details, has been refused.
C21_Witness ==
    /\ fn = "ToolBackend.Validate"
    /\ arg.Kind = "provider"
    /\ arg.Provider = ProviderBackend(<<"p">>, EmptyString)
    /\ arg.MCP = MCPBackend(<<"s">>)
    /\ arg.Local = LocalBackend(<<"n">>)
    /\ ret.kind = "error"

\* A string with every byte that is no UTF-8 replaced by U+FFFD.
Coerced(str) == [i \in 1..Len(str) |-> IF str[i] = "0xFF" THEN "U+FFFD" ELSE str[i]]

\* The keys of the members of a JSON object.
KeysOf(data) == {data[i].k : i \in 1..Len(data)}

C23_NoParametersConvention ==
    \A p \in Callers, m \in NoParamMarkers :
        (Finished(p, "Validate") /\ call[p].instance.kind = "object") =>
            /\ call[p].schema \in ValueReprs(RecommendedSchema(m)) =>
                  /\ call[p].instance.keys = {} => result[p] = Nil
                  /\ call[p].instance.keys # {} =>
                        Class(result[p]) = "validation failed"
            /\ call[p].schema \in ValueReprs(AllowedSchema(m)) => result[p] = Nil

\* C23's case: Validate has refused {"extra": ...} for the recommended
\* schema given as a map.
C23_Witness ==
    /\ Finished(1, "Validate")
    /\ call[1].schema = MapSchema(MapOf(RecommendedSchema(EmptyString)))
    /\ call[1].instance = InstObject({"extra"})
    /\ Class(result[1]) = "validation failed"

\* The stages of Validate, in the order of its code.
StageOrder == <<"toJSONSchema", "checkDialect", "Resolve", "Validate">>

\* The stages caller p ran, the invocations of the loader left out.
OwnStages(p) == SelectSeq(stages[p], LAMBDA st : st # "blockExternalRefs")

\* C24: Validate runs normalisation, dialect check, reference resolution and
\* the check of the instance in that order and returns at the first stage
\* that fails: an unsupported representation gives ErrInvalidSchema before
\* any dialect check; an unsupported dialect together with an external $ref
\* gives ErrUnsupportedSchema and the loader is never invoked; a failing
\* resolution gives the resolution error whatever the instance; nil is
\* returned only when all four stages have run.
C24_StagesInOrderFirstFailureReturns ==
    \A p \in Callers :
        /\ OwnStages(p) = SubSeq(StageOrder, 1, Len(OwnStages(p)))
        /\ \A i \in 1..Len(stages[p]) :
              stages[p][i] = "blockExternalRefs" =>
                  /\ i > 3
                  /\ \A j \in 1..i : stages[p][j] # "Validate"
        /\ pc[p] \in {"checkDialect", "Resolve", "Validate"} =>
              /\ result[p] = Pending
              /\ \E k \in 1..3 : pc[p] = StageOrder[k + 1]
                                  /\ OwnStages(p) = SubSeq(StageOrder, 1, k)
        /\ Validated(p) =>
              /\ result[p] = Nil => OwnStages(p) = StageOrder
              /\ Class(result[p]) = "validation failed" => OwnStages(p) = StageOrder
              /\ Class(result[p]) = "schema resolution failed" =>
                    OwnStages(p) = SubSeq(StageOrder, 1, 3)
              /\ IsErr(result[p], ErrUnsupportedSchema) =>
                    stages[p] = SubSeq(StageOrder, 1, 2)
              /\ (IsErr(result[p], ErrInvalidSchema)
                    /\ Class(result[p]) \notin {"validation failed",
                                                 "schema resolution failed"}) =>
                    stages[p] = SubSeq(StageOrder, 1, 1)
              /\ call[p].schema.kind \notin SchemaKinds =>
                    /\ IsErr(result[p], ErrInvalidSchema)
                    /\ stages[p] = SubSeq(StageOrder, 1, 1)
              /\ \A n \in 1..NumOwned :
                    (call[p].schema \in ReprsOf(n)
                       /\ OwnedSchema(n).Ref = ExternalURI) =>
                        IF SupportedMarker(OwnedSchema(n).Schema)
                        THEN /\ Class(result[p]) = "schema resolution failed"
                             /\ ~Ran(p, "Validate")
                        ELSE /\ IsErr(result[p], ErrUnsupportedSchema)
                             /\ ~Ran(p, "Resolve")
                             /\ ~Ran(p, "blockExternalRefs")

\* C24's case: Validate has returned ErrUnsupportedSchema for a schema given
\* as bytes that declares an unsupported dialect and has an external $ref;
\* the loader was not invoked.
C24_Witness ==
    /\ Finished(1, "Validate")
    /\ \E n \in 1..NumOwned :
          /\ OwnedSchema(n).Ref = ExternalURI
          /\ ~SupportedMarker(OwnedSchema(n).Schema)
          /\ call[1].schema.kind = "[]byte"
          /\ call[1].schema \in ReprsOf(n)
    /\ IsErr(result[1], ErrUnsupportedSchema)
    /\ stages[1] = <<"toJSONSchema", "checkDialect">>

\* The markers of the draft-07 family: its two spellings, and every URI
\* under its prefix.
Draft07Family(m) ==
    \/ m = <<"http://json-schema.org/draft-07", "/", "schema", "#">>
    \/ m = <<"http://json-schema.org/draft-07", "/", "schema">>
    \/ HasPrefix(m, <<"http://json-schema.org/draft-07", "/">>)

\* The markers of the 2020-12 family.
Draft202012Family(m) ==
    \/ m = <<"https://json-schema.org/draft/2020-12", "/", "schema">>
    \/ HasPrefix(m, <<"https://json-schema.org/draft/2020-12", "/">>)

\* C25: when the dialect check has accepted a schema, the marker of the
\* validator's working copy is empty if the original marker was in the
\* draft-07 family and is the original marker otherwise; so the schema handed
\* to the resolution has an empty marker or one of the 2020-12 family, never
\* a draft-07 marker.
C25_WorkingCopyMarkerCleared ==
    \A p \in Callers :
        (pc[p] = "Resolve" /\ call[p].schema.kind = "jsonschema.Schema") =>
            LET m == call[p].schema.val.Schema
                w == objs[js[p]].Schema
            IN  /\ Draft07Family(m) => w = EmptyString
                /\ ~Draft07Family(m) => w = m
                /\ w = EmptyString \/ Draft202012Family(w)
                /\ ~Draft07Family(w)

\* C25's case: the check has accepted a marker under the draft-07 prefix
\* that is neither of the two spellings, and the working copy has no marker.
C25_Witness ==
    /\ pc[1] = "Resolve"
    /\ call[1].schema.val.Schema
          = <<"http://json-schema.org/draft-07", "/", "schema", "/">>
    /\ objs[js[1]].Schema = EmptyString

\* C26: for a non-nil tool with a non-nil InputSchema, ValidateInput returns
\* what Validate returns for tool.InputSchema and the same arguments, and
\* likewise ValidateOutput for a non-nil OutputSchema; the other schema field
\* plays no part, and no step of either operation changes a field of the tool
\* or the schema object a field points to.
C26_WrappersDelegateToValidate ==
    /\ [](\A p \in Callers :
            /\ (/\ Finished(p, "ValidateInput")
                /\ ~call[p].tool.isNil
                /\ call[p].tool.InputSchema # NilSchema) =>
                   LET v == Validate(objs, call[p].tool.InputSchema,
                                     call[p].instance, Local(p))
                   IN  /\ call[p].schema = call[p].tool.InputSchema
                       /\ result[p] = v.res
                       /\ stages[p] = v.ran
                       /\ \A o \in ToolSchemas :
                             ValidateInput([call[p].tool EXCEPT !.OutputSchema = o])
                                 = ValidateInput(call[p].tool)
            /\ (/\ Finished(p, "ValidateOutput")
                /\ ~call[p].tool.isNil
                /\ call[p].tool.OutputSchema # NilSchema) =>
                   LET v == Validate(objs, call[p].tool.OutputSchema,
                                     call[p].instance, Local(p))
                   IN  /\ call[p].schema = call[p].tool.OutputSchema
                       /\ result[p] = v.res
                       /\ stages[p] = v.ran
                       /\ \A i \in ToolSchemas \ {NilSchema} :
                             ValidateOutput([call[p].tool EXCEPT !.InputSchema = i])
                                 = ValidateOutput(call[p].tool))
    /\ [][\A p \in Callers :
            (/\ pc[p] \notin {"idle", "done"}
             /\ call[p].op \in {"ValidateInput", "ValidateOutput"}) =>
                /\ call'[p].tool = call[p].tool
                /\ \A r \in Refs : r.own = "caller" => objs'[r] = objs[r]]_vars

\* C26's case: ValidateInput has refused a string for a tool whose
\* InputSchema wants an object and whose OutputSchema, a map, wants a string.
C26_Witness ==
    /\ Finished(1, "ValidateInput")
    /\ call[1].tool.InputSchema = PtrSchema(CallerRef(Len(CuratedMarkers) + 4))
    /\ call[1].tool.OutputSchema = MapSchema(MapOf(OwnedSchema(1)))
    /\ call[1].instance = InstString
    /\ Class(result[1]) = "validation failed"

\* The position of the last colon of s, 0 if s has none.
LastColon(s) ==
    IF Count(s, ":") = 0 THEN 0
    ELSE CHOOSE i \in 1..Len(s) : s[i] = ":" /\ \A j \in (i + 1)..Len(s) : s[j] # ":"

\* C27: ToolID is injective on valid tools: two tools that both pass
\* Tool.Validate and have the same ToolID have the same Namespace and the same
\* Name; the name of a valid tool has no colon, so the last colon of the ID
\* separates the namespace from the name, also when the namespace has colons.
C27_ToolIDInjectiveOnValidTools ==
    fn \in {"Tool.Validate, Tool.ToolID", "ParseToolID"} =>
        /\ (ret[1].err = Nil /\ ret[2].err = Nil /\ ret[1].id = ret[2].id) =>
              /\ arg[1].Namespace = arg[2].Namespace
              /\ arg[1].Name = arg[2].Name
        /\ \A i \in 1..2 :
              ret[i].err = Nil =>
                  LET k == LastColon(ret[i].id)
                  IN  /\ Count(arg[i].Name, ":") = 0
                      /\ arg[i].Name = SubSeq(ret[i].id, k + 1, Len(ret[i].id))
                      /\ arg[i].Namespace = SubSeq(ret[i].id, 1, k - 1)
                      /\ (k = 0) <=> (arg[i].Namespace = EmptyString)

\* C27's case: two valid tools whose namespace has a colon have the same ID.
C27_Witness ==
    /\ fn = "Tool.Validate, Tool.ToolID"
    /\ ret[1].err = Nil /\ ret[2].err = Nil
    /\ ret[1].id = ret[2].id
    /\ arg[1].Namespace = <<":", "a">>
    /\ arg[1].Name = <<"a", "a">>

\* C28: every tool that passes Tool.Validate has a ToolID that ParseToolID
\* accepts and takes apart into the tool's Namespace and Name, whatever the
\* Namespace is.
C28_ValidToolIDParsesBack ==
    fn = "ParseToolID" =>
        \A i \in 1..2 :
            ret[i].err = Nil =>
                /\ ret[i].parsed.err = Nil
                /\ ret[i].parsed.namespace = arg[i].Namespace
                /\ ret[i].parsed.name = arg[i].Name

\* C29: NormalizeTags is idempotent: applied to its own result it returns
\* that result, element for element and in the same order.
C29_NormalizeTagsIdempotent ==
    fn = "NormalizeTags(NormalizeTags)" =>
        /\ ret.once = NormalizeTags(arg)
        /\ Len(ret.twice) = Len(ret.once)
        /\ \A i \in 1..Len(ret.once) : ret.twice[i] = ret.once[i]

\* C29's case: the two tags the documented example normalizes to have been
\* normalized again.
C29_Witness ==
    /\ fn = "NormalizeTags(NormalizeTags)"
    /\ arg = ExampleTags
    /\ Len(ret.once) = 2
    /\ ret.twice = ret.once

\* The schema field the operation of caller p reads.
FieldRead(p) ==
    IF call[p].op = "ValidateInput" THEN call[p].tool.InputSchema
    ELSE call[p].tool.OutputSchema

\* C30: only a nil interface value is an absent schema: with an OutputSchema
\* that holds an empty byte sequence or a nil *jsonschema.Schema,
\* ValidateOutput does not succeed but returns an ErrInvalidSchema error, and
\* so does ValidateInput with such an InputSchema; the nil pointer is refused
\* by the normalisation, before anything reads through it.
C30_EmptySchemaValuesAreInvalid ==
    \A p \in Callers :
        /\ (/\ pc[p] = "done"
            /\ call[p].op \in {"ValidateInput", "ValidateOutput"}
            /\ ~call[p].tool.isNil
            /\ FieldRead(p).kind \in {"*jsonschema.Schema", "json.RawMessage", "[]byte"}
            /\ FieldRead(p).kind = "*jsonschema.Schema" => FieldRead(p).ref = NilRef
            /\ FieldRead(p).kind # "*jsonschema.Schema" => FieldRead(p).bytes = << >>) =>
               /\ IsErr(result[p], ErrInvalidSchema)
               /\ ~crashed
               /\ stages[p] = <<"toJSONSchema">>
               /\ js[p] = NilRef
        /\ (Finished(p, "ValidateOutput") /\ ~call[p].tool.isNil) =>
               ((result[p] = Nil /\ stages[p] = << >>)
                   <=> call[p].tool.OutputSchema = NilSchema)

\* C30's case: ValidateOutput has returned an error for a tool whose
\* OutputSchema holds a nil *jsonschema.Schema and whose InputSchema is a
\* schema the result satisfies.
C30_Witness ==
    /\ Finished(1, "ValidateOutput")
    /\ call[1].tool.OutputSchema = PtrSchema(NilRef)
    /\ call[1].tool.InputSchema = PtrSchema(CallerRef(Len(CuratedMarkers) + 4))
    /\ call[1].instance = InstObject({})
    /\ result[1].kind = "error"

============================================================================
